---- MODULE Spec2Model ----
(***************************************************************************)
(* Model of scripts/generate.js: the response normaliser                   *)
(* (normaliseTranslation with pickString / pickInteger), the empty         *)
(* annotation of the --skip-api path (createEmptyTranslation), the         *)
(* content splitter (parseContent), the run of main, and the script of the *)
(* page buildPageHtml writes.                                              *)
(*   Spec      one document through the normaliser, callback by callback   *)
(*   ParseSpec parseContent on raw texts                                   *)
(*   MainSpec  main over a manifest, with the provider's responses         *)
(*   PageSpec  a generated page in a browser, event by event               *)
(*   FunctionSpec  functions of the page script, each applied on its own   *)
(*                                                                         *)
(* Representation of JavaScript values                                     *)
(*   A JS string is a sequence of UTF-16 code units; a code unit is a      *)
(*   token such as "guan" (the BMP character U+5173), " " (a space),       *)
(*   "1" (a digit) or "uD840" / "uDC00" (a surrogate pair).                *)
(*   A JS value is a record whose field name is its type:                  *)
(*     [undef |-> TRUE]  [null |-> TRUE]  [bool |-> b]                     *)
(*     [num |-> n, den |-> d]   the number n/d (d > 0)                     *)
(*     [nan |-> TRUE]                                                      *)
(*     [str |-> s]   s a sequence of code units                            *)
(*     [arr |-> a]   a a sequence of JS values                             *)
(*     [obj |-> o]   o a function from property names to JS values         *)
(*     [throw |-> TRUE]  the outcome of an expression that raises          *)
(*   Positions (i, s, e, line indices) are 0-based as in the source;       *)
(*   TLA+ sequences are 1-based, so slot i of chars is chars[i + 1].       *)
(***************************************************************************)
EXTENDS Integers, Sequences, FiniteSets, TLC

Undefined == [undef |-> TRUE]
Null == [null |-> TRUE]
NaN == [nan |-> TRUE]
TypeError == [throw |-> TRUE]
Bool(b) == [bool |-> b]
Num(n) == [num |-> n, den |-> 1]
Frac(n, d) == [num |-> n, den |-> d]
Str(s) == [str |-> s]
Arr(a) == [arr |-> a]
Obj(o) == [obj |-> o]

IsUndefined(v) == "undef" \in DOMAIN v
IsNull(v) == "null" \in DOMAIN v
IsBool(v) == "bool" \in DOMAIN v
IsNum(v) == "num" \in DOMAIN v
IsNaN(v) == "nan" \in DOMAIN v
IsStr(v) == "str" \in DOMAIN v
IsArr(v) == "arr" \in DOMAIN v
IsObj(v) == "obj" \in DOMAIN v
IsThrow(v) == "throw" \in DOMAIN v

\* ---------------------------------------------------------------- strings

WhiteSpace == {" ", "u3000", "CR", "LF"}
Digits == {"0", "1", "2", "3", "4", "5", "6", "7", "8", "9"}
HighSurrogates == {"uD840"}
LowSurrogates == {"uDC00"}

DigitVal(c) ==
  CASE c = "0" -> 0 [] c = "1" -> 1 [] c = "2" -> 2 [] c = "3" -> 3
    [] c = "4" -> 4 [] c = "5" -> 5 [] c = "6" -> 6 [] c = "7" -> 7
    [] c = "8" -> 8 [] c = "9" -> 9

RECURSIVE TrimStart(_)
TrimStart(s) ==
  IF s # <<>> /\ Head(s) \in WhiteSpace THEN TrimStart(Tail(s)) ELSE s

RECURSIVE TrimEnd(_)
TrimEnd(s) ==
  IF s # <<>> /\ s[Len(s)] \in WhiteSpace
    THEN TrimEnd(SubSeq(s, 1, Len(s) - 1))
    ELSE s

\* String.prototype.trim
Trim(s) == TrimEnd(TrimStart(s))

RECURSIVE Pow10(_)
Pow10(k) == IF k = 0 THEN 1 ELSE 10 * Pow10(k - 1)

\* the value of a run of decimal digits, -1 when s holds another code unit
RECURSIVE DigitsValue(_, _)
DigitsValue(s, acc) ==
  IF s = <<>> THEN acc
  ELSE IF Head(s) \in Digits
    THEN DigitsValue(Tail(s), 10 * acc + DigitVal(Head(s)))
    ELSE -1

IndexOfDot(s) ==
  IF \E k \in 1..Len(s) : s[k] = "."
    THEN CHOOSE k \in 1..Len(s) : s[k] = "." /\ \A j \in 1..(k - 1) : s[j] # "."
    ELSE 0

\* the digits before and after the decimal point, read as a number
DecimalToNumber(ip, fp) ==
  IF ip = <<>> /\ fp = <<>> THEN NaN
  ELSE IF DigitsValue(ip, 0) < 0 \/ DigitsValue(fp, 0) < 0 THEN NaN
  ELSE Frac(DigitsValue(ip, 0) * Pow10(Len(fp)) + DigitsValue(fp, 0), Pow10(Len(fp)))

\* an unsigned decimal literal cut at its decimal point (dot = 0: no point):
\* digits, digits "." digits*, or "." digits
UnsignedAt(s, dot) ==
  IF dot = 0 THEN DecimalToNumber(s, <<>>)
  ELSE DecimalToNumber(SubSeq(s, 1, dot - 1), SubSeq(s, dot + 1, Len(s)))

UnsignedToNumber(s) == UnsignedAt(s, IndexOfDot(s))

Negate(u) == IF IsNaN(u) THEN NaN ELSE Frac(0 - u.num, u.den)

\* StringToNumber of a trimmed string
TrimmedToNumber(t) ==
  IF t = <<>> THEN Num(0)
  ELSE IF Head(t) = "-" THEN Negate(UnsignedToNumber(Tail(t)))
  ELSE IF Head(t) = "+" THEN UnsignedToNumber(Tail(t))
  ELSE UnsignedToNumber(t)

\* Number(string): StringToNumber for decimal literals (the code units of the
\* model hold no exponent, hex or Infinity spellings)
StringToNumber(s) == TrimmedToNumber(Trim(s))

\* Number(array): the array is joined with "," and the string is parsed, so
\* [] is 0, a one-element array is the number of its element's string form
\* (null and undefined give ""), and a longer array holds a comma: NaN
RECURSIVE ArrayToNumber(_)
ArrayToNumber(a) ==
  IF Len(a) = 0 THEN Num(0)
  ELSE IF Len(a) > 1 THEN NaN
  ELSE CASE IsNull(a[1]) \/ IsUndefined(a[1]) -> Num(0)
         [] IsNum(a[1]) -> a[1]
         [] IsStr(a[1]) -> StringToNumber(a[1].str)
         [] IsArr(a[1]) -> ArrayToNumber(a[1].arr)
         [] OTHER -> NaN

\* Number(value)
ToNumber(v) ==
  CASE IsUndefined(v) -> NaN
    [] IsNull(v) -> Num(0)
    [] IsBool(v) -> IF v.bool THEN Num(1) ELSE Num(0)
    [] IsNum(v) -> v
    [] IsNaN(v) -> NaN
    [] IsStr(v) -> StringToNumber(v.str)
    [] IsArr(v) -> ArrayToNumber(v.arr)
    [] OTHER -> NaN

\* Number.isInteger
IsInteger(v) == IsNum(v) /\ v.num % v.den = 0

\* the mathematical value of an integral number
IntValue(v) == v.num \div v.den

\* !value
Falsy(v) ==
  \/ IsUndefined(v) \/ IsNull(v) \/ IsNaN(v)
  \/ (IsBool(v) /\ ~v.bool)
  \/ (IsNum(v) /\ v.num = 0)
  \/ (IsStr(v) /\ v.str = <<>>)

\* Object.prototype.hasOwnProperty.call(source, key) for the keys the
\* normaliser asks for (none is an array index or "length")
HasOwnProperty(source, key) ==
  IF IsNull(source) \/ IsUndefined(source) THEN TypeError
  ELSE Bool(IsObj(source) /\ key \in DOMAIN source.obj)

\* source[key]
GetProp(source, key) ==
  IF IsNull(source) \/ IsUndefined(source) THEN TypeError
  ELSE IF IsObj(source) /\ key \in DOMAIN source.obj THEN source.obj[key]
  ELSE Undefined

\* source?.key
GetPropOpt(source, key) ==
  IF IsNull(source) \/ IsUndefined(source) THEN Undefined
  ELSE GetProp(source, key)

\* text.split(''): the code units of text, each as a string
SplitCodeUnits(text) == [k \in 1..Len(text) |-> <<text[k]>>]

\* Array.from(text): the code points of text, each as a string
RECURSIVE ArrayFrom(_)
ArrayFrom(text) ==
  IF text = <<>> THEN <<>>
  ELSE IF Len(text) >= 2 /\ text[1] \in HighSurrogates /\ text[2] \in LowSurrogates
    THEN <<SubSeq(text, 1, 2)>> \o ArrayFrom(SubSeq(text, 3, Len(text)))
    ELSE <<SubSeq(text, 1, 1)>> \o ArrayFrom(Tail(text))

\* ------------------------------------------------- extraction primitives

\* typeof value === 'string', value.trim() and the test of the result
RECURSIVE pickStringLoop(_, _)
pickStringValue(value, source, keys) ==
  IF IsThrow(value) THEN TypeError
  ELSE IF IsStr(value) /\ Trim(value.str) # <<>> THEN Str(Trim(value.str))
  ELSE pickStringLoop(source, Tail(keys))

\* the loop of pickString over the keys that are left
pickStringLoop(source, keys) ==
  IF keys = <<>> THEN Str(<<>>)
  ELSE pickStringValue(GetProp(source, Head(keys)), source, keys)

\* pickString without its first line
pickStringUnguarded(source, keys) == pickStringLoop(source, keys)

pickString(source, keys) ==
  IF Falsy(source) THEN Str(<<>>) ELSE pickStringLoop(source, keys)

\* Number(source[key]) and the Number.isInteger test
\* the loop of pickInteger ending at the first key that is present
pickIntegerValueOrNull(value, source, keys) ==
  IF IsInteger(value) THEN Num(IntValue(value)) ELSE Null

RECURSIVE pickIntegerLoop(_, _)
pickIntegerValue(value, source, keys) ==
  IF IsInteger(value) THEN Num(IntValue(value))
  ELSE pickIntegerLoop(source, Tail(keys))

\* the hasOwnProperty test of one key
pickIntegerKey(has, source, keys) ==
  IF IsThrow(has) THEN TypeError
  ELSE IF ~has.bool THEN pickIntegerLoop(source, Tail(keys))
  ELSE pickIntegerValue(ToNumber(GetProp(source, Head(keys))), source, keys)

\* the loop of pickInteger over the keys that are left
pickIntegerLoop(source, keys) ==
  IF keys = <<>> THEN Null
  ELSE pickIntegerKey(HasOwnProperty(source, Head(keys)), source, keys)

pickInteger(source, keys) ==
  IF Falsy(source) THEN Null ELSE pickIntegerLoop(source, keys)

\* the key lists of normaliseTranslation
LineIndexKeys == <<"index", "lineIndex", "line">>
CharIndexKeys == <<"i", "index", "idx", "position">>
CharKeys == <<"ch", "char", "character", "c", "text", "value">>
PinyinKeys == <<"p", "pinyin", "py">>
GlossKeys == <<"g", "gloss", "meaning", "translation", "explanation", "note",
               "interpretation", "definition", "def">>
StartKeys == <<"s", "start", "from", "begin", "beginIndex">>
EndKeys == <<"e", "end", "to", "finish", "stop", "endIndex">>
SummaryKeys == <<"summary", "desc", "description">>
TitleKeys == <<"title", "name", "heading">>

\* ------------------------------------------------------ the normaliser

\* Array.from(text).map(ch => ({ c: ch, p: '', g: '' }))
blankChars(text) ==
  LET charArr == ArrayFrom(text)
  IN [n \in 1..Len(charArr) |-> [c |-> charArr[n], p |-> <<>>, g |-> <<>>]]

\* the empty annotation without the phrases of its lines
createEmptyWithoutPhrases(content) ==
  [title |-> <<>>,
   summary |-> <<>>,
   lines |-> [n \in 1..Len(content.originalLines) |->
                [text |-> content.originalLines[n],
                 chars |-> blankChars(content.originalLines[n])]]]

createEmptyTranslation(content) ==
  [title |-> <<>>,
   summary |-> <<>>,
   lines |-> [n \in 1..Len(content.originalLines) |->
                [text |-> content.originalLines[n],
                 chars |-> blankChars(content.originalLines[n]),
                 phrases |-> <<>>]]]

\* a callback that returns normally, leaving value v behind
Normal(v) == [normal |-> v]

\* a set that keeps the entry a key already has
MapSetKeepFirst(map, key, value) ==
  [x \in DOMAIN map \cup {key} |-> IF x \in DOMAIN map THEN map[x] ELSE value]

\* lineMap.set(idx, item)
MapSet(map, key, value) ==
  [x \in DOMAIN map \cup {key} |-> IF x = key THEN value ELSE map[x]]

\* lineMap.get(index + 1)
MapGetOneBased(map, key) == IF (key + 1) \in DOMAIN map THEN map[key + 1] ELSE Undefined

\* lineMap.get(index)
MapGet(map, key) == IF key \in DOMAIN map THEN map[key] ELSE Undefined

\* lines 228-229: the test of idx and lineMap.set
indexLineAt(map, item, idx) ==
  IF IsThrow(idx) THEN TypeError
  ELSE IF IsNull(idx) THEN Normal(map)
  ELSE Normal(MapSet(map, IntValue(idx), item))

\* one call of the payload.lines.forEach callback (lines 225-230)
indexLineEntry(map, item) ==
  IF Falsy(item) THEN Normal(map)
  ELSE indexLineAt(map, item, pickInteger(item, LineIndexKeys))

\* charArr[i]: undefined outside the array
ElemAt(arr, i) == IF i \in 0..(Len(arr) - 1) THEN Str(arr[i + 1]) ELSE Undefined

\* chars[i].p = val and chars[i].g = val: raise when chars[i] is undefined
SetPinyin(chars, i, val) ==
  IF i \in 0..(Len(chars) - 1) THEN Normal([chars EXCEPT ![i + 1].p = val])
  ELSE TypeError

\* the gloss stored in every slot of the line
SetGlossEverywhere(chars, i, val) ==
  IF i \in 0..(Len(chars) - 1)
    THEN Normal([j \in 1..Len(chars) |-> [chars[j] EXCEPT !.g = val]])
  ELSE TypeError

SetGloss(chars, i, val) ==
  IF i \in 0..(Len(chars) - 1) THEN Normal([chars EXCEPT ![i + 1].g = val])
  ELSE TypeError

\* line 242: the position check of a character sub-entry
charIndexRejected(i, chars) ==
  IsNull(i) \/ IntValue(i) < 0 \/ IntValue(i) >= Len(chars)

\* the character check left out
charNeverRejected(entryChar, original) == FALSE

\* line 244: the character check of a character sub-entry
charRejected(entryChar, original) ==
  entryChar.str # <<>> /\ entryChar # original

\* chars[i].g = gVal without the test of gVal
setGlossAlways(r, i, gVal) ==
  IF IsThrow(r) THEN TypeError ELSE SetGloss(r.normal, i, gVal.str)

\* lines 249-252: gVal, after the pinyin assignment left r behind
setGlossIf(r, i, gVal) ==
  IF IsThrow(r) THEN TypeError
  ELSE IF gVal.str # <<>> THEN SetGloss(r.normal, i, gVal.str)
  ELSE r

\* lines 245-252: pVal and gVal are stored when they are not empty
setFields(chars, i, pVal, gVal) ==
  setGlossIf(IF pVal.str # <<>> THEN SetPinyin(chars, i, pVal.str) ELSE Normal(chars),
             i, gVal)

\* lines 242-252: the callback once i is known
applyCharAt(chars, charArr, entry, i) ==
  IF IsThrow(i) THEN TypeError
  ELSE IF charIndexRejected(i, chars) THEN Normal(chars)
  ELSE IF charRejected(pickString(entry, CharKeys), ElemAt(charArr, IntValue(i)))
    THEN Normal(chars)
  ELSE setFields(chars, IntValue(i), pickString(entry, PinyinKeys),
                 pickString(entry, GlossKeys))

\* one call of the payloadLine.chars.forEach callback (lines 239-253)
applyCharEntry(chars, charArr, entry) ==
  IF Falsy(entry) THEN Normal(chars)
  ELSE applyCharAt(chars, charArr, entry, pickInteger(entry, CharIndexKeys))

\* the range check with e > len for e >= len
phraseRejectedOffByOne(s, e, len) == s < 0 \/ e > len

\* line 262: the range check of a phrase after the swap
phraseRejected(s, e, len) == s < 0 \/ e >= len

\* lines 262-268: the range check and the push
pushPhrase(phrases, len, ph, s, e) ==
  IF phraseRejected(s, e, len) THEN Normal(phrases)
  ELSE Normal(Append(phrases,
                     [s |-> s,
                      e |-> e,
                      p |-> pickString(ph, PinyinKeys).str,
                      g |-> pickString(ph, GlossKeys).str]))

\* the callback without the swap of line 261
applyPhraseAtUnswapped(phrases, len, ph, s, e) ==
  IF IsThrow(s) \/ IsThrow(e) THEN TypeError
  ELSE IF IsNull(s) \/ IsNull(e) THEN Normal(phrases)
  ELSE pushPhrase(phrases, len, ph, IntValue(s), IntValue(e))

\* lines 260-268: the callback once s and e are known
applyPhraseAt(phrases, len, ph, s, e) ==
  IF IsThrow(s) \/ IsThrow(e) THEN TypeError
  ELSE IF IsNull(s) \/ IsNull(e) THEN Normal(phrases)
  ELSE IF IntValue(s) > IntValue(e)
    THEN pushPhrase(phrases, len, ph, IntValue(e), IntValue(s))
  ELSE pushPhrase(phrases, len, ph, IntValue(s), IntValue(e))

\* one call of the payloadLine.phrases.forEach callback (lines 256-269)
applyPhraseEntry(phrases, len, ph) ==
  IF Falsy(ph) THEN Normal(phrases)
  ELSE applyPhraseAt(phrases, len, ph, pickInteger(ph, StartKeys),
                     pickInteger(ph, EndKeys))

\* the rest of a forEach after one callback left r behind
RECURSIVE indexLineEntries(_, _)
indexRest(r, items) ==
  IF IsThrow(r) THEN TypeError ELSE indexLineEntries(r.normal, Tail(items))

\* payload.lines.forEach over the items that are left (lines 225-230)
indexLineEntries(map, items) ==
  IF items = <<>> THEN Normal(map)
  ELSE indexRest(indexLineEntry(map, Head(items)), items)

\* Array.isArray(source?.key) ? source.key : no elements
ArrayOrEmpty(a) == IF IsArr(a) THEN a.arr ELSE <<>>

arrayOf(source, key) == ArrayOrEmpty(GetPropOpt(source, key))

RECURSIVE applyCharEntries(_, _, _)
charsRest(r, charArr, entries) ==
  IF IsThrow(r) THEN TypeError ELSE applyCharEntries(r.normal, charArr, Tail(entries))

\* payloadLine.chars.forEach over the entries that are left
applyCharEntries(chars, charArr, entries) ==
  IF entries = <<>> THEN Normal(chars)
  ELSE charsRest(applyCharEntry(chars, charArr, Head(entries)), charArr, entries)

RECURSIVE applyPhraseEntries(_, _, _)
phrasesRest(r, len, entries) ==
  IF IsThrow(r) THEN TypeError ELSE applyPhraseEntries(r.normal, len, Tail(entries))

\* payloadLine.phrases.forEach over the entries that are left
applyPhraseEntries(phrases, len, entries) ==
  IF entries = <<>> THEN Normal(phrases)
  ELSE phrasesRest(applyPhraseEntry(phrases, len, Head(entries)), len, entries)

\* line 272: the line returned by the map callback
lineResult(text, chars, phrases) ==
  IF IsThrow(chars) \/ IsThrow(phrases) THEN TypeError
  ELSE [text |-> text, chars |-> chars.normal, phrases |-> phrases.normal]

\* lines 233-272 with charArr = Array.from(text)
normaliseLineOf(text, charArr, payloadLine) ==
  lineResult(text,
             applyCharEntries(blankChars(text), charArr, arrayOf(payloadLine, "chars")),
             applyPhraseEntries(<<>>, Len(charArr), arrayOf(payloadLine, "phrases")))

\* the callback of content.originalLines.map (lines 232-273); payloadLine is
\* undefined when the line has no entry
normaliseLine(text, payloadLine) == normaliseLineOf(text, ArrayFrom(text), payloadLine)

\* lines 232-273: the lines, given the line map
normaliseLines(content, lineMap) ==
  [n \in 1..Len(content.originalLines) |->
     normaliseLine(content.originalLines[n], MapGet(lineMap, n - 1))]

\* lines 274-276: the returned object
translationResult(lines, summary, title) ==
  IF \E n \in 1..Len(lines) : IsThrow(lines[n]) THEN TypeError
  ELSE IF IsThrow(summary) \/ IsThrow(title) THEN TypeError
  ELSE [title |-> title.str, lines |-> lines, summary |-> summary.str]

\* lines 232-276, given the line map
normaliseWith(content, payload, lineMap) ==
  IF IsThrow(lineMap) THEN TypeError
  ELSE translationResult(normaliseLines(content, lineMap.normal),
                         pickString(payload, SummaryKeys),
                         pickString(payload, TitleKeys))

normaliseTranslation(content, payload) ==
  normaliseWith(content, payload, indexLineEntries(<<>>, arrayOf(payload, "lines")))

\* ------------------------------------------------------------ parseContent

\* lines 109-110: the section markers, one token per code unit
\* ("[" and "]" stand for the lenticular brackets)
whiteMark == <<"[", "bai", "hua", "wen", "fan", "yi", "]">>
commentMark == <<"[", "dian", "ping", "]">>

\* mark is at the 0-based position i of s
OccursAt(s, mark, i) ==
  /\ i + Len(mark) <= Len(s)
  /\ SubSeq(s, i + 1, i + Len(mark)) = mark

\* String.prototype.indexOf: the first position of mark in s, or -1
IndexOf(s, mark) ==
  IF \E i \in 0..Len(s) : OccursAt(s, mark, i)
    THEN CHOOSE i \in 0..Len(s) :
           /\ OccursAt(s, mark, i)
           /\ \A j \in 0..(i - 1) : ~OccursAt(s, mark, j)
    ELSE -1

\* String.prototype.slice(from, to) for 0 <= from, to
Slice(s, from, to) ==
  IF from >= Len(s) \/ to <= from THEN <<>>
  ELSE SubSeq(s, from + 1, IF to > Len(s) THEN Len(s) ELSE to)

\* String.prototype.slice(from)
SliceFrom(s, from) == Slice(s, from, Len(s))

\* lines 118-123: vernacular and comment once the first marker is found
sectionsAfter(text, idxWhite, idxComment) ==
  IF idxComment # -1
    THEN [original |-> Slice(text, 0, idxWhite),
          vernacular |-> Slice(text, idxWhite + Len(whiteMark), idxComment),
          comment |-> SliceFrom(text, idxComment + Len(commentMark))]
    ELSE [original |-> Slice(text, 0, idxWhite),
          vernacular |-> SliceFrom(text, idxWhite + Len(whiteMark)),
          comment |-> <<>>]

\* lines 113-124: original, vernacular and comment
sectionsAt(text, idxWhite, idxComment) ==
  IF idxWhite # -1 THEN sectionsAfter(text, idxWhite, idxComment)
  ELSE [original |-> text, vernacular |-> <<>>, comment |-> <<>>]

\* lines 111-124
sectionsOf(text) == sectionsAt(text, IndexOf(text, whiteMark), IndexOf(text, commentMark))

\* the rest of s after its leading line feeds
RECURSIVE DropLineFeeds(_)
DropLineFeeds(s) ==
  IF s # <<>> /\ Head(s) = "LF" THEN DropLineFeeds(Tail(s)) ELSE s

\* String.prototype.split with the pattern of line 125: an optional
\* carriage return followed by one or more line feeds; seg is the segment
\* in progress
RECURSIVE SplitNewlines(_, _)
SplitNewlines(s, seg) ==
  IF s = <<>> THEN <<seg>>
  ELSE IF Head(s) = "LF" THEN <<seg>> \o SplitNewlines(DropLineFeeds(s), <<>>)
  ELSE IF Head(s) = "CR" /\ Len(s) >= 2 /\ s[2] = "LF"
    THEN <<seg>> \o SplitNewlines(DropLineFeeds(Tail(s)), <<>>)
  ELSE SplitNewlines(Tail(s), Append(seg, Head(s)))

\* .map(s => s.trim())
RECURSIVE TrimEach(_)
TrimEach(segs) ==
  IF segs = <<>> THEN <<>> ELSE <<Trim(Head(segs))>> \o TrimEach(Tail(segs))

\* the segments kept as they are
KeepAll(segs) == segs

\* .filter(Boolean)
RECURSIVE FilterNonEmpty(_)
FilterNonEmpty(segs) ==
  IF segs = <<>> THEN <<>>
  ELSE (IF Head(segs) # <<>> THEN <<Head(segs)>> ELSE <<>>)
       \o FilterNonEmpty(Tail(segs))

\* line 125
originalLinesOf(original) == FilterNonEmpty(TrimEach(SplitNewlines(original, <<>>)))

\* lines 125-131
parsedOf(s) ==
  [originalText |-> Trim(s.original),
   originalLines |-> originalLinesOf(s.original),
   vernacular |-> Trim(s.vernacular),
   comment |-> Trim(s.comment)]

\* lines 108-132
parseContent(text) == parsedOf(sectionsOf(text))

\* -------------------------------------------------------------------- main

\* a || b
OrElse(a, b) == IF Falsy(a) THEN b ELSE a

\* lines 100-106; the defaults stand for the two literals of lines 102, 104
resolveApiConfig(options, env) ==
  [url |-> OrElse(options.apiUrl, OrElse(env.DEEPSEEK_API_URL, Str(<<"https">>))),
   key |-> OrElse(options.apiKey, OrElse(env.DEEPSEEK_API_KEY, Str(<<>>))),
   model |-> OrElse(options.apiModel, OrElse(env.DEEPSEEK_MODEL, Str(<<"chat">>)))]

\* the test of line 22 on the url alone
urlMissing(apiConfig) == Falsy(apiConfig.url)

\* line 22: !apiConfig.url || !apiConfig.key || !apiConfig.model
configMissing(apiConfig) ==
  Falsy(apiConfig.url) \/ Falsy(apiConfig.key) \/ Falsy(apiConfig.model)

\* String.prototype.split(','); seg is the piece in progress
RECURSIVE SplitCommas(_, _)
SplitCommas(s, seg) ==
  IF s = <<>> THEN <<seg>>
  ELSE IF Head(s) = "," THEN <<seg>> \o SplitCommas(Tail(s), <<>>)
  ELSE SplitCommas(Tail(s), Append(seg, Head(s)))

\* line 91: the Set of the trimmed, non-empty pieces of filesOption
wantedOf(filesOption) ==
  {piece \in {Trim(SplitCommas(filesOption, <<>>)[n]) :
                n \in 1..Len(SplitCommas(filesOption, <<>>))} : piece # <<>>}

\* line 92: the filter callback
isWanted(item, wanted) ==
  \/ item.file \in wanted
  \/ ~Falsy(item.title) /\ IsStr(item.title) /\ item.title.str \in wanted

RECURSIVE FilterWanted(_, _)
FilterWanted(items, wanted) ==
  IF items = <<>> THEN <<>>
  ELSE (IF isWanted(Head(items), wanted) THEN <<Head(items)>> ELSE <<>>)
       \o FilterWanted(Tail(items), wanted)

\* lines 87-93
filterManifest(manifest, filesOption) ==
  IF Falsy(filesOption) THEN manifest
  ELSE FilterWanted(manifest, wantedOf(filesOption.str))

\* the last code units of a name that /\.txt$/i matches, as one token
TxtSuffixes == {".txt", ".TXT"}

\* the name of the source file kept as it is
sameName(file) == file

\* line 43: meta.file.replace(/\.txt$/i, '.html')
outNameOf(file) ==
  IF file # <<>> /\ file[Len(file)] \in TxtSuffixes
    THEN SubSeq(file, 1, Len(file) - 1) \o <<".html">>
    ELSE file

\* line 280: meta.file.replace(/\.txt$/i, '')
baseNameOf(file) ==
  IF file # <<>> /\ file[Len(file)] \in TxtSuffixes
    THEN SubSeq(file, 1, Len(file) - 1)
    ELSE file

\* a title as a JS value, and the string of a JS string or ''
TitleOr(title, other) == IF title # <<>> THEN title ELSE other
StrOr(v, other) == IF Falsy(v) THEN other ELSE v.str

\* lines 280, 288-309: the data buildPageHtml puts into the page
\* (cell.p || '' of a string is the string)
buildPageHtml(meta, content, translation) ==
  [file |-> meta.file,
   title |-> TitleOr(translation.title, StrOr(meta.title, baseNameOf(meta.file))),
   lines |-> translation.lines]

\* lines 46-49: the entry pushed to generated
generatedEntry(meta, translation) ==
  [title |-> TitleOr(translation.title, StrOr(meta.title, outNameOf(meta.file))),
   outputName |-> outNameOf(meta.file)]

\* a string that JSON.parse turns into the value v
JsonText(v) == [str |-> <<"json">>, parses |-> v]

\* JSON.parse(content): the argument is converted to a string first, so a
\* number, a boolean and null give themselves, a one-element array gives
\* what its element gives (null and undefined are the empty string there),
\* and an object ("[object Object]"), undefined, an empty array and an array
\* that is joined with "," raise, as do the strings that hold no JSON (the
\* strings without parses: words, never pieces of a JSON text)
RECURSIVE JsonParse(_)
JsonParse(c) ==
  CASE IsStr(c) -> IF "parses" \in DOMAIN c THEN Normal(c.parses) ELSE TypeError
    [] IsNum(c) \/ IsBool(c) \/ IsNull(c) -> Normal(c)
    [] IsArr(c) ->
         IF Len(c.arr) # 1 \/ IsNull(c.arr[1]) \/ IsUndefined(c.arr[1])
           THEN TypeError
           ELSE JsonParse(c.arr[1])
    [] OTHER -> TypeError

\* value?.[0]: element 0 of an array, property "0" of an object, the first
\* code unit of a string, undefined for every other value
FirstOpt(a) ==
  CASE IsArr(a) -> IF Len(a.arr) > 0 THEN a.arr[1] ELSE Undefined
    [] IsObj(a) -> IF "0" \in DOMAIN a.obj THEN a.obj["0"] ELSE Undefined
    [] IsStr(a) -> IF Len(a.str) > 0 THEN Str(<<a.str[1]>>) ELSE Undefined
    [] OTHER -> Undefined

\* line 178: data?.choices?.[0]?.message?.content
messageContent(data) ==
  GetPropOpt(GetPropOpt(FirstOpt(GetPropOpt(data, "choices")), "message"), "content")

\* lines 179-183: try JSON.parse, else the raw response
parsedOr(r, data) == IF IsThrow(r) THEN data ELSE r.normal

\* lines 177-185
payloadOfData(data) ==
  IF Falsy(messageContent(data)) THEN data
  ELSE parsedOr(JsonParse(messageContent(data)), data)

\* the payload of every response that has a body, whatever its status
payloadIgnoringStatus(res) ==
  IF res.rejected THEN TypeError
  ELSE IF IsThrow(res.json) THEN TypeError
  ELSE Normal(payloadOfData(res.json))

\* lines 164-185: what translateWithDeepseek makes of the outcome of fetch:
\* the payload, or a raise (fetch rejects, !res.ok, res.json() rejects)
payloadOfResponse(res) ==
  IF res.rejected THEN TypeError
  ELSE IF ~res.ok THEN TypeError
  ELSE IF IsThrow(res.json) THEN TypeError
  ELSE Normal(payloadOfData(res.json))

\* ----------------------------------------------------- the page script

\* the decimal numeral of an integer, as string concatenation gives it
DigitTokens == <<"0", "1", "2", "3", "4", "5", "6", "7", "8", "9">>

RECURSIVE digitsOf(_)
digitsOf(n) ==
  IF n < 10 THEN <<DigitTokens[n + 1]>>
  ELSE Append(digitsOf(n \div 10), DigitTokens[(n % 10) + 1])

numeral(n) == IF n < 0 THEN <<"-">> \o digitsOf(0 - n) ELSE digitsOf(n)

\* the digits after the decimal point of r / den, for r < den (at most
\* left of them)
RECURSIVE fracDigits(_, _, _)
fracDigits(r, den, left) ==
  IF r = 0 \/ left = 0 THEN <<>>
  ELSE <<DigitTokens[((10 * r) \div den) + 1]>>
       \o fracDigits((10 * r) % den, den, left - 1)

\* String(number) for the decimal numbers JSON text holds
RECURSIVE numberText(_)
numberText(v) ==
  IF v.num < 0
    THEN <<"-">> \o numberText([num |-> 0 - v.num, den |-> v.den])
  ELSE IF v.num % v.den = 0 THEN digitsOf(v.num \div v.den)
  ELSE digitsOf(v.num \div v.den) \o <<".">> \o fracDigits(v.num % v.den, v.den, 17)

\* String(value), which the value setter of an input applies
RECURSIVE stringOf(_)
RECURSIVE joinComma(_)
joinComma(a) ==
  IF a = <<>> THEN <<>>
  ELSE (IF IsNull(Head(a)) \/ IsUndefined(Head(a)) THEN <<>> ELSE stringOf(Head(a)))
       \o (IF Len(a) > 1 THEN <<",">> \o joinComma(Tail(a)) ELSE <<>>)

stringOf(v) ==
  CASE IsStr(v) -> v.str
    [] IsNum(v) -> numberText(v)
    [] IsBool(v) -> IF v.bool THEN <<"t", "r", "u", "e">> ELSE <<"f", "a", "l", "s", "e">>
    [] IsArr(v) -> joinComma(v.arr)
    [] IsObj(v) -> <<"[", "o", "b", "j", "e", "c", "t", " ", "O", "b", "j", "e", "c", "t", "]">>
    [] IsNull(v) -> <<"n", "u", "l", "l">>
    [] IsNaN(v) -> <<"N", "a", "N">>
    [] OTHER -> <<"u", "n", "d", "e", "f", "i", "n", "e", "d">>

\* a || b
OrValue(a, b) == IF Falsy(a) THEN b ELSE a

\* lines 480-481 and 568-569: the record, s and e swapped when s > e; p and
\* g are JS values, strings unless stored notes brought another value
phraseRecord(s, e, p, g) ==
  IF s > e THEN [s |-> e, e |-> s, p |-> p, g |-> g]
  ELSE [s |-> s, e |-> e, p |-> p, g |-> g]

\* lines 470-474: baseLines of the lines buildPageHtml wrote (every cell has
\* a character, so cell.c || textLine[idx] is cell.c)
baseLinesOf(data) ==
  [n \in 1..Len(data.lines) |->
     [j \in 1..Len(data.lines[n].chars) |->
        [c |-> data.lines[n].chars[j].c,
         p |-> data.lines[n].chars[j].p,
         g |-> data.lines[n].chars[j].g]]]

\* lines 475-483: basePhrases has a key for every line with phrases
basePhrasesOf(data) ==
  [k \in {i \in 0..(Len(data.lines) - 1) : data.lines[i + 1].phrases # <<>>} |->
     [n \in 1..Len(data.lines[k + 1].phrases) |->
        phraseRecord(data.lines[k + 1].phrases[n].s, data.lines[k + 1].phrases[n].e,
                     Str(data.lines[k + 1].phrases[n].p),
                     Str(data.lines[k + 1].phrases[n].g))]]

\* lines 486-501
cloneBaseNotes(data) ==
  [title |-> data.title, lines |-> baseLinesOf(data), phrases |-> basePhrasesOf(data)]

\* lines 505-514: store.load of the item localStorage holds
storeLoad(item) ==
  IF Falsy(item) THEN Null
  ELSE IF IsThrow(JsonParse(item)) THEN Null
  ELSE JsonParse(item).normal

\* lines 527-536
isValidStored(data, obj) ==
  /\ ~Falsy(obj)
  /\ IsArr(GetProp(obj, "lines"))
  /\ Len(GetProp(obj, "lines").arr) = Len(baseLinesOf(data))
  /\ \A i \in 1..Len(baseLinesOf(data)) :
       /\ IsArr(GetProp(obj, "lines").arr[i])
       /\ Len(GetProp(obj, "lines").arr[i].arr) = Len(baseLinesOf(data)[i])

\* lines 539-542: the title after the merge
mergedTitle(title, stored) ==
  IF IsStr(GetProp(stored, "title")) /\ Trim(GetProp(stored, "title").str) # <<>>
    THEN Trim(GetProp(stored, "title").str)
  ELSE title

\* line 548: rowStored[j] || {}
sourceOrEmpty(v) == IF Falsy(v) THEN Obj(<<>>) ELSE v

\* lines 549-551
mergedCell(target, source) ==
  [c |-> IF IsStr(GetProp(source, "c")) /\ GetProp(source, "c").str # <<>>
           THEN GetProp(source, "c").str ELSE target.c,
   p |-> IF IsStr(GetProp(source, "p")) THEN GetProp(source, "p").str ELSE target.p,
   g |-> IF IsStr(GetProp(source, "g")) THEN GetProp(source, "g").str ELSE target.g]

\* lines 543-553: the rows after the merge (stored passed isValidStored)
mergedLines(rows, stored) ==
  [i \in 1..Len(rows) |->
     [j \in 1..Len(rows[i]) |->
        mergedCell(rows[i][j], sourceOrEmpty(GetProp(stored, "lines").arr[i].arr[j]))]]

\* the property names of the lines, as for-in and notes.phrases[li] see them
LineKeys == <<"0", "1">>

\* (ph && ph.key) || '': a truthy value is kept whatever its type
fieldOrEmpty(ph, key) ==
  IF Falsy(ph) THEN Str(<<>>) ELSE OrValue(GetProp(ph, key), Str(<<>>))

\* lines 567-569: one stored phrase, <<>> when it is dropped
storedPhrase(ph, s, e) ==
  IF IsInteger(s) /\ IsInteger(e)
    THEN <<phraseRecord(IntValue(s), IntValue(e),
                        fieldOrEmpty(ph, "p"), fieldOrEmpty(ph, "g"))>>
  ELSE <<>>

\* Number(ph && ph.s)
NumberOfField(ph, key) == IF Falsy(ph) THEN ToNumber(ph) ELSE ToNumber(GetProp(ph, key))

RECURSIVE storedPhrases(_)
storedPhrases(arr) ==
  IF arr = <<>> THEN <<>>
  ELSE storedPhrase(Head(arr), NumberOfField(Head(arr), "s"), NumberOfField(Head(arr), "e"))
       \o storedPhrases(Tail(arr))

\* lines 560-562: the value for-in finds under the key of line k in
\* stored.phrases, an object or an array (typeof gives 'object' for both);
\* Undefined when there is none
phrasesAt(container, k) ==
  CASE IsObj(container) ->
         IF LineKeys[k + 1] \in DOMAIN container.obj
           THEN container.obj[LineKeys[k + 1]] ELSE Undefined
    [] IsArr(container) ->
         IF k < Len(container.arr) THEN container.arr[k + 1] ELSE Undefined
    [] OTHER -> Undefined

\* lines 559-563: the keys of stored.phrases that hold an array replace those of the base
storedPhraseKeys(stored) ==
  {k \in 0..(Len(LineKeys) - 1) : IsArr(phrasesAt(GetProp(stored, "phrases"), k))}

\* lines 554-573: the arrays stored.phrases holds replace those of the base
mergedPhrases(phrases, stored) ==
  [k \in DOMAIN phrases \cup storedPhraseKeys(stored) |->
     IF k \in storedPhraseKeys(stored)
       THEN storedPhrases(phrasesAt(GetProp(stored, "phrases"), k).arr)
     ELSE phrases[k]]

\* lines 538-575
mergeStored(base, stored) ==
  [title |-> mergedTitle(base.title, stored),
   lines |-> mergedLines(base.lines, stored),
   phrases |-> mergedPhrases(base.phrases, stored)]

\* lines 577-581: the notes the page starts with
loadedNotes(data, item) ==
  IF isValidStored(data, storeLoad(item))
    THEN mergeStored(cloneBaseNotes(data), storeLoad(item))
  ELSE cloneBaseNotes(data)

\* lines 515-521 and 621-623: what saveToStore leaves in localStorage
storedCell(cell) == Obj([c |-> Str(cell.c), p |-> Str(cell.p), g |-> Str(cell.g)])
storedPhraseOf(ph) == Obj([s |-> Num(ph.s), e |-> Num(ph.e), p |-> ph.p, g |-> ph.g])
storedOf(notes) ==
  JsonText(Obj([title |-> Str(notes.title),
                lines |-> Arr([i \in 1..Len(notes.lines) |->
                                 Arr([j \in 1..Len(notes.lines[i]) |->
                                        storedCell(notes.lines[i][j])])]),
                phrases |-> Obj([key \in {LineKeys[k + 1] : k \in DOMAIN notes.phrases} |->
                                   Arr([n \in 1..Len(notes.phrases[
                                          CHOOSE k \in DOMAIN notes.phrases :
                                            LineKeys[k + 1] = key]) |->
                                          storedPhraseOf(notes.phrases[
                                            CHOOSE k \in DOMAIN notes.phrases :
                                              LineKeys[k + 1] = key][n])])])]))

\* (notes.phrases && notes.phrases[lineIndex]) || [] (lines 634, 645)
listOf(phrases, li) == IF li \in DOMAIN phrases THEN phrases[li] ELSE <<>>

\* the last phrase of the line that covers charIndex
findLastPhraseByIndex(phrases, lineIndex, charIndex) ==
  IF \E n \in 1..Len(listOf(phrases, lineIndex)) :
       /\ listOf(phrases, lineIndex)[n].s <= charIndex
       /\ listOf(phrases, lineIndex)[n].e >= charIndex
    THEN listOf(phrases, lineIndex)[
           CHOOSE n \in 1..Len(listOf(phrases, lineIndex)) :
             /\ listOf(phrases, lineIndex)[n].s <= charIndex
             /\ listOf(phrases, lineIndex)[n].e >= charIndex
             /\ \A m \in (n + 1)..Len(listOf(phrases, lineIndex)) :
                  ~(listOf(phrases, lineIndex)[m].s <= charIndex
                     /\ listOf(phrases, lineIndex)[m].e >= charIndex)]
  ELSE Null

\* lines 644-653: the first phrase of the line that covers charIndex, Null
\* when there is none
findPhraseByIndex(phrases, lineIndex, charIndex) ==
  IF \E n \in 1..Len(listOf(phrases, lineIndex)) :
       /\ listOf(phrases, lineIndex)[n].s <= charIndex
       /\ listOf(phrases, lineIndex)[n].e >= charIndex
    THEN listOf(phrases, lineIndex)[
           CHOOSE n \in 1..Len(listOf(phrases, lineIndex)) :
             /\ listOf(phrases, lineIndex)[n].s <= charIndex
             /\ listOf(phrases, lineIndex)[n].e >= charIndex
             /\ \A m \in 1..(n - 1) :
                  ~(listOf(phrases, lineIndex)[m].s <= charIndex
                     /\ listOf(phrases, lineIndex)[m].e >= charIndex)]
  ELSE Null

\* lines 633-642: the first phrase of the line with this range
getPhrase(phrases, lineIndex, start, end) ==
  IF \E n \in 1..Len(listOf(phrases, lineIndex)) :
       listOf(phrases, lineIndex)[n].s = start /\ listOf(phrases, lineIndex)[n].e = end
    THEN listOf(phrases, lineIndex)[
           CHOOSE n \in 1..Len(listOf(phrases, lineIndex)) :
             /\ listOf(phrases, lineIndex)[n].s = start
             /\ listOf(phrases, lineIndex)[n].e = end
             /\ \A m \in 1..(n - 1) :
                  ~(listOf(phrases, lineIndex)[m].s = start
                     /\ listOf(phrases, lineIndex)[m].e = end)]
  ELSE Null

\* the positions of the records of a list that have this range
sameRange(list, s, e) == {n \in 1..Len(list) : list[n].s = s /\ list[n].e = e}

\* lines 775-787 on the list of the line; p and g are the strings of the
\* inputs
upsertInto(list, s, e, p, g) ==
  IF sameRange(list, s, e) # {}
    THEN [list EXCEPT ![CHOOSE n \in sameRange(list, s, e) :
                          \A m \in sameRange(list, s, e) : n <= m] =
                        [s |-> s, e |-> e, p |-> Str(p), g |-> Str(g)]]
  ELSE Append(list, [s |-> s, e |-> e, p |-> Str(p), g |-> Str(g)])

\* lines 773-788
upsertPhrase(phrases, li, s, e, p, g) ==
  MapSet(phrases, li, upsertInto(listOf(phrases, li), s, e, p, g))

\* lines 790-795
removePhrase(phrases, li, s, e) ==
  IF li \in DOMAIN phrases
    THEN [phrases EXCEPT ![li] =
            SelectSeq(phrases[li], LAMBDA item : ~(item.s = s /\ item.e = e))]
  ELSE phrases

\* Array.prototype.join('') of strings
RECURSIVE joinAll(_)
joinAll(parts) == IF parts = <<>> THEN <<>> ELSE Head(parts) \o joinAll(Tail(parts))

\* the index slice starts or ends at: a negative one counts from the end
sliceIndex(k, len) ==
  IF k < 0 THEN (IF len + k < 0 THEN 0 ELSE len + k)
  ELSE IF k > len THEN len ELSE k

\* Array.prototype.slice(start, end)
sliceOf(arr, start, end) ==
  IF sliceIndex(end, Len(arr)) <= sliceIndex(start, Len(arr)) THEN <<>>
  ELSE SubSeq(arr, sliceIndex(start, Len(arr)) + 1, sliceIndex(end, Len(arr)))

\* lines 655-658
getPhraseText(text, start, end) == joinAll(sliceOf(ArrayFrom(text), start, end + 1))

\* ------------------------------------------------------------- inputs

\* bounds of the payloads the provider returns
MaxCharEntries == 2
MaxPhraseEntries == 2
MaxLineEntries == 2

SeqsUpTo(S, n) == UNION {[1..m -> S] : m \in 0..n}

S1(x) == Str(<<x>>)

\* original lines as parseContent leaves them: trimmed and non-empty
LineGuan == <<"guan", "guan", "ju", "jiu">>
LineZai == <<"zai", "uD840", "uDC00", "he">>
LineHe == <<"he", " ", "zhou">>

Documents ==
  { [originalLines |-> <<LineGuan>>],
    [originalLines |-> <<LineZai, LineHe>>] }

\* elements a provider may put in a chars array
CharEntries ==
  { Obj([i |-> Num(1), g |-> S1("ming")]),
    Obj([i |-> Num(0), p |-> S1("pa")]),
    Obj([i |-> Num(0), g |-> S1("ga")]),
    Obj([i |-> Num(0), ch |-> S1("cuo"), g |-> S1("gx")]),
    Obj([i |-> Num(0), ch |-> S1("guan"), p |-> S1("pb"), g |-> S1("gb")]),
    Obj([i |-> Num(0), ch |-> S1(" "), g |-> S1("gw")]),
    Obj([i |-> Num(0), ch |-> S1("zai"), char |-> S1("cuo"), p |-> S1("pc")]),
    Obj([i |-> Num(1), ch |-> Str(<<"uD840", "uDC00">>), g |-> S1("gs")]),
    Obj([idx |-> Str(<<" ", "2">>), pinyin |-> Str(<<" ", "pd", " ">>),
         meaning |-> S1("gd")]),
    Obj([i |-> Num(3), g |-> S1("go")]),
    Obj([i |-> Num(-1), g |-> S1("gm")]),
    Obj([i |-> Null, g |-> S1("gn")]),
    Obj([i |-> Frac(3, 2), position |-> Num(1), p |-> S1("pf")]),
    Obj([i |-> Num(0), p |-> Str(<<>>), g |-> S1(" ")]),
    Obj([g |-> S1("gq")]),
    Null,
    Num(7) }

\* elements a provider may put in a phrases array
PhraseEntries ==
  { Obj([s |-> Num(0), e |-> Num(1), g |-> S1("fa")]),
    Obj([s |-> Num(0), e |-> Num(5), g |-> S1("fb")]),
    Obj([s |-> Num(2), e |-> Num(0), p |-> S1("qc")]),
    Obj([s |-> Num(1), e |-> Num(3), g |-> S1("fd")]),
    Obj([s |-> Num(-1), e |-> Num(1), g |-> S1("fe")]),
    Obj([s |-> Num(1), g |-> S1("ff")]),
    Obj([s |-> Null, e |-> Num(1), g |-> S1("fg")]),
    Obj([start |-> S1("1"), end |-> S1("2"), pinyin |-> S1("qh"),
         gloss |-> Str(<<"fh", " ">>)]),
    Obj([s |-> Frac(3, 2), e |-> Num(2), g |-> S1("fi")]),
    Obj([s |-> Bool(TRUE), e |-> Arr(<<Num(2)>>), g |-> S1("fj")]),
    Obj([s |-> Str(<<>>), e |-> S1("x"), g |-> S1("fk")]),
    Obj([s |-> Num(1), e |-> Num(1)]),
    Null,
    S1("fm") }

\* elements a provider may put in the lines array
LineEntries ==
  { Obj([index |-> Num(0),
         chars |-> Arr(<<Obj([i |-> Num(0), g |-> S1("a0")])>>),
         phrases |-> Arr(<<Obj([s |-> Num(0), e |-> Num(1), g |-> S1("f0")])>>)]),
    Obj([index |-> Num(1),
         chars |-> Arr(<<Obj([i |-> Num(0), g |-> S1("a1")])>>)]),
    Obj([line |-> Num(0),
         chars |-> Arr(<<Obj([i |-> Num(1), p |-> S1("b0")])>>)]),
    Obj([lineIndex |-> S1("1"),
         chars |-> Arr(<<Obj([i |-> Num(1), g |-> S1("b1")])>>),
         phrases |-> Arr(<<Obj([s |-> Num(1), e |-> Num(2), p |-> S1("q1")])>>)]),
    Obj([index |-> Frac(3, 2), line |-> Num(1),
         chars |-> Arr(<<Obj([i |-> Num(2), g |-> S1("c1")])>>)]),
    Obj([index |-> Null,
         chars |-> Arr(<<Obj([i |-> Num(2), g |-> S1("c0")])>>)]),
    Obj([index |-> Num(7),
         chars |-> Arr(<<Obj([i |-> Num(0), g |-> S1("a7")])>>)]),
    Obj([chars |-> Arr(<<Obj([i |-> Num(0), g |-> S1("zz")])>>)]),
    Obj([index |-> Num(0),
         chars |-> Obj([i |-> Num(0), g |-> S1("ob")]),
         phrases |-> Null]),
    Obj([index |-> Num(0), text |-> Str(LineGuan)]),
    Null,
    S1("ln") }

\* a payload that holds only a lines array
WithLines(items) == Obj([lines |-> Arr(items)])

\* one line entry for line 0 with the given chars and phrases arrays
EntryFor(cs, ps) == Obj([index |-> Num(0), chars |-> Arr(cs), phrases |-> Arr(ps)])

\* payloads whose shape is not the requested one
ShapePayloads ==
  LET entry == Obj([line |-> Num(0),
                    chars |-> Arr(<<Obj([i |-> Num(1), g |-> S1("ming")])>>),
                    phrases |-> Arr(<<Obj([s |-> Num(0), e |-> Num(1),
                                           g |-> S1("fa")])>>)])
  IN { Null, Bool(FALSE), Num(5), S1("oops"), Arr(<<entry>>), Obj(<<>>),
       Obj([lines |-> Null]),
       Obj([lines |-> entry]),
       Obj([title |-> Str(<<" ", "ti", " ">>), summary |-> S1("su")]),
       Obj([title |-> Num(5), heading |-> S1("hd"), desc |-> S1("de"),
            lines |-> Arr(<<>>)]),
       Obj([name |-> S1("nm"), description |-> S1("ds"), lines |-> Arr(<<entry>>)]),
       Obj([rows |-> Arr(<<entry>>)]),
       Obj([data |-> Obj([lines |-> Arr(<<entry>>)])]),
       Obj([result |-> Obj([payload |-> Obj([rows |-> Arr(<<entry>>)])])]) }

\* the payloads translateWithDeepseek may hand over
Payloads ==
  {WithLines(<<EntryFor(cs, <<>>)>>) : cs \in SeqsUpTo(CharEntries, MaxCharEntries)}
  \cup {WithLines(<<EntryFor(<<>>, ps)>>) :
          ps \in SeqsUpTo(PhraseEntries, MaxPhraseEntries)}
  \cup {WithLines(ls) : ls \in SeqsUpTo(LineEntries, MaxLineEntries)}
  \cup ShapePayloads

\* bound of the raw documents: the number of pieces a text is made of
MaxPieces == 3

\* the pieces raw documents are made of
Pieces ==
  { <<"guan">>, <<" ">>, <<"LF">>, <<"CR", "LF">>, <<"CR">>, <<"[">>,
    whiteMark, commentMark }

RECURSIVE Concat(_)
Concat(ps) == IF ps = <<>> THEN <<>> ELSE Head(ps) \o Concat(Tail(ps))

\* the raw texts fs.readFile may return
Texts == {Concat(ps) : ps \in SeqsUpTo(Pieces, MaxPieces)}

\* bound of the runs: the number of items of the manifest
MaxManifest == 3

\* the files of the book directory: FileBlank has no original line and
\* FileMissing is named by the manifest only
FileGuan == <<"guan", ".txt">>
FileBlank == <<"blank", ".TXT">>
FileZai == <<"zai">>
FileMissing == <<"missing", ".txt">>

TextGuan == LineGuan \o <<"LF">> \o whiteMark \o <<"bai">> \o commentMark \o <<"ping">>
TextBlank == <<" ", "LF">> \o whiteMark \o <<"bai">>
TextZai == LineZai \o <<"CR", "LF">> \o LineHe \o <<"LF">>

\* fs.readFile(filePath, 'utf8'): the text, or a raise
readFile(file) ==
  IF file = FileGuan THEN Normal(TextGuan)
  ELSE IF file = FileBlank THEN Normal(TextBlank)
  ELSE IF file = FileZai THEN Normal(TextZai)
  ELSE TypeError

ManifestItems ==
  { [file |-> FileGuan, title |-> Str(<<"Guan", "ju">>)],
    [file |-> FileBlank, title |-> Undefined],
    [file |-> FileZai, title |-> Str(<<"Zai">>)],
    [file |-> FileMissing, title |-> Str(<<"Guan", "ju">>)] }

\* readJson(manifestPath): a manifest, or a raise
ManifestReads ==
  {Normal(items) : items \in SeqsUpTo(ManifestItems, MaxManifest)} \cup {TypeError}

\* the values of --files
FilesOptions ==
  { Null,
    Str(<<"guan", ".txt", ",", " ", "Zai", " ", ",">>),
    Str(<<"blank", ".TXT", ",", "Guan", "ju">>),
    Str(<<"zz">>) }

\* --api-url, --api-key, --api-model and the environment
ApiSettings ==
  { [apiUrl |-> Undefined, apiKey |-> Undefined, apiModel |-> Undefined,
     env |-> [DEEPSEEK_API_URL |-> Undefined, DEEPSEEK_API_KEY |-> Undefined,
              DEEPSEEK_MODEL |-> Undefined]],
    [apiUrl |-> Undefined, apiKey |-> Undefined, apiModel |-> Undefined,
     env |-> [DEEPSEEK_API_URL |-> Undefined, DEEPSEEK_API_KEY |-> Str(<<"ek">>),
              DEEPSEEK_MODEL |-> Undefined]],
    [apiUrl |-> Str(<<"ou">>), apiKey |-> Str(<<"ok">>), apiModel |-> Str(<<>>),
     env |-> [DEEPSEEK_API_URL |-> Str(<<>>), DEEPSEEK_API_KEY |-> Str(<<>>),
              DEEPSEEK_MODEL |-> Str(<<"em">>)]],
    [apiUrl |-> Str(<<>>), apiKey |-> Str(<<>>), apiModel |-> Undefined,
     env |-> [DEEPSEEK_API_URL |-> Undefined, DEEPSEEK_API_KEY |-> Str(<<>>),
              DEEPSEEK_MODEL |-> Undefined]] }

\* a chat completion whose first message has the given content
Completion(c) == Obj([choices |-> Arr(<<Obj([message |-> Obj([content |-> c])])>>)])

\* a payload of the requested shape
GoodPayload ==
  Obj([title |-> S1("ti"),
       lines |-> Arr(<<Obj([index |-> Num(0),
                            chars |-> Arr(<<Obj([i |-> Num(0), p |-> S1("pa"),
                                                 g |-> S1("ga")])>>),
                            phrases |-> Arr(<<Obj([s |-> Num(0), e |-> Num(1),
                                                   g |-> S1("fa")])>>)])>>)])

\* the outcomes of fetch(cfg.url, ...)
Responses ==
  { [rejected |-> TRUE, ok |-> FALSE, json |-> TypeError],
    [rejected |-> FALSE, ok |-> FALSE, json |-> Obj(<<>>)],
    [rejected |-> FALSE, ok |-> TRUE, json |-> TypeError],
    [rejected |-> FALSE, ok |-> TRUE, json |-> Completion(JsonText(GoodPayload))],
    [rejected |-> FALSE, ok |-> TRUE, json |-> Completion(S1("oops"))],
    [rejected |-> FALSE, ok |-> TRUE, json |-> Completion(Num(5))],
    [rejected |-> FALSE, ok |-> TRUE, json |-> Completion(Arr(<<JsonText(GoodPayload)>>))],
    [rejected |-> FALSE, ok |-> TRUE,
     json |-> Obj([choices |-> Obj([k \in {"0"} |->
                Obj([message |-> Obj([content |-> JsonText(GoodPayload)])])])])],
    [rejected |-> FALSE, ok |-> TRUE, json |-> Obj([lines |-> S1("none")])] }

\* ------------------------------------------------------ the state machine

\* the document and the manifest item of the page that is opened: the
\* second character of the line is white space, which the page does not
\* make clickable
PageContent == [originalLines |-> <<LineHe>>]
PageMeta == [file |-> <<"he", ".txt">>, title |-> Str(<<"He">>)]

\* the phrases arrays of the payloads the page is generated from
PagePhraseLists ==
  { << Obj([s |-> Num(0), e |-> Num(1), g |-> S1("fa")]) >>,
    << Obj([s |-> Num(0), e |-> Num(1), g |-> S1("fa")]),
       Obj([s |-> Num(2), e |-> Num(0), p |-> S1("qc")]) >>,
    << Obj([s |-> Num(0), e |-> Num(5), g |-> S1("fb")]),
       Obj([s |-> Num(2), e |-> Num(0), p |-> S1("qc")]),
       Obj([s |-> Num(0), e |-> Num(1), g |-> S1("fa")]) >>,
    << Obj([s |-> Num(0), e |-> Num(1), g |-> S1("fa")]),
       Obj([s |-> Num(0), e |-> Num(1), g |-> S1("fa")]) >> }

PagePayloadOf(ps) ==
  WithLines(<<EntryFor(<<Obj([i |-> Num(0), p |-> S1("pa"), g |-> S1("ga")])>>, ps)>>)

PagePayloads == { PagePayloadOf(ps) : ps \in PagePhraseLists }

\* the payload of the page that is opened with notes of an earlier visit
RevisitedPayload ==
  PagePayloadOf(<< Obj([s |-> Num(0), e |-> Num(1), g |-> S1("fa")]),
                   Obj([s |-> Num(2), e |-> Num(0), p |-> S1("qc")]) >>)

\* rows of stored notes for the line of the page
StoredRow(c, p) ==
  Arr(<< Obj([c |-> Str(c), p |-> Str(p), g |-> Str(<<>>)]),
         Obj([c |-> Str(<<" ">>)]),
         Null >>)

\* what localStorage may hold under the key of the page when it is opened
StoredItems ==
  { Null,
    JsonText(Obj([lines |-> Arr(<<StoredRow(<<"he">>, <<"sp">>)>>),
                  title |-> Str(<<" ", "st">>)])),
    JsonText(Obj([lines |-> Arr(<<StoredRow(<<"cuo">>, <<>>)>>)])),
    JsonText(Obj([lines |-> Arr(<<Arr(<<Null>>)>>)])),
    JsonText(Obj([lines |-> Arr(<<Arr(<<Null, Null, Null>>)>>),
                  phrases |-> Arr(<<
                    Arr(<< Obj([s |-> Num(2), e |-> Num(0), p |-> Num(5),
                                g |-> S1("sf")]),
                           Obj([s |-> S1("x"), e |-> Num(1)]) >>) >>)])) }

\* the visits: a page and what localStorage holds when it is opened
PageVisits ==
  {v \in PagePayloads \X StoredItems : v[2] = Null \/ v[1] = RevisitedPayload}

\* what the user types into a field
TypedValues == { <<" ", "ta">> }

VARIABLES
  pc,           \* position in main / normaliseTranslation
  content,      \* the parsed document
  skipApi,      \* options.skipApi
  payload,      \* the value translateWithDeepseek returned
  lineMap,      \* the Map of line index to line entry
  lines,        \* the result lines finished so far
  index,        \* the line content.originalLines.map is at (0-based)
  chars,        \* chars of the line in progress
  phrases,      \* phrases of the line in progress
  pos,          \* the element the running forEach is at (0-based)
  translation,  \* the value main receives
  raw,          \* the text fs.readFile returned (main, line 29)
  sections      \* original, vernacular and comment of parseContent

VARIABLES
  options,        \* what parseArgs returned, skipApi apart
  env,            \* process.env
  manifestFile,   \* what readJson(manifestPath) gives
  fetchAvailable, \* typeof fetch === 'function'
  targets,        \* the selected manifest items
  apiConfig,      \* what resolveApiConfig returned
  visited,        \* the number of targets the loop is done with
  generated,      \* the entries of the navigation page
  events,         \* the file reads, requests and file writes so far
  response,       \* the response fetch settled with, while its body is read
  exitCode,       \* process.exitCode
  error           \* the error main().catch reports, if any

mainVars == <<options, env, manifestFile, fetchAvailable, targets, apiConfig,
              visited, generated, events, response, exitCode, error>>

VARIABLES
  pageData,      \* window.PAGE_DATA: what buildPageHtml put into the page
  localStorage,  \* the item under storeKey
  notes,         \* the notes the page edits
  state,         \* the selected character
  phraseMode,
  phraseStart,
  phraseCurrent,
  fields,        \* the values of the inputs of the two panels
  bubble,        \* style.display and aria-hidden of #bubble, and whether a
                 \* requestAnimationFrame callback of showBubble is queued
  focus,         \* the input that is document.activeElement, "other" when
                 \* it is no input
  saves,         \* the calls of store.save so far, up to MaxSaves
  reselectedFrom, \* history: the range that was loaded, with a record of
                 \* the line, when the range now loaded was selected in
                 \* phrase mode; NoPhrase when there was none
  call           \* a function of the script applied on its own: its name,
                 \* its arguments and what it returned; Undefined when
                 \* none was

pageVars == <<pageData, localStorage, notes, state, phraseMode, phraseStart,
              phraseCurrent, reselectedFrom, fields, bubble, focus, saves, call>>

\* lines 603-606, and the inputs and the bubble of the document as parsed
NoSelection == [line |-> -1, index |-> -1]
NoPhrase == [line |-> -1, s |-> -1, e |-> -1]
EmptyFields ==
  [fieldChar |-> <<>>, fieldPinyin |-> <<>>, fieldGloss |-> <<>>,
   phText |-> <<>>, phRange |-> <<>>, phPinyin |-> <<>>, phGloss |-> <<>>]
HiddenBubble == [display |-> "none", ariaHidden |-> "true", pending |-> FALSE]

\* the script of the page has not run
ScriptIdle ==
  /\ notes = Undefined
  /\ state = NoSelection
  /\ phraseMode = FALSE
  /\ phraseStart = Null
  /\ phraseCurrent = NoPhrase
  /\ reselectedFrom = NoPhrase
  /\ fields = EmptyFields
  /\ bubble = HiddenBubble
  /\ focus = "other"

\* no page is open
PageIdle ==
  /\ pageData = Undefined
  /\ localStorage = Null
  /\ saves = 0
  /\ call = Undefined
  /\ ScriptIdle

\* main is not running
MainIdle ==
  /\ options = Undefined
  /\ env = Undefined
  /\ manifestFile = Undefined
  /\ fetchAvailable = FALSE
  /\ targets = <<>>
  /\ apiConfig = Undefined
  /\ visited = 0
  /\ generated = <<>>
  /\ events = <<>>
  /\ response = Undefined
  /\ exitCode = 0
  /\ error = "none"

\* the state outside main's choice of annotation and the normaliser
runVars == <<raw, sections, mainVars, pageVars>>

vars == <<pc, content, skipApi, payload, lineMap, lines, index, chars, phrases,
          pos, translation, runVars>>

\* parseContent is not running
RunIdle == raw = <<>> /\ sections = Undefined /\ MainIdle /\ PageIdle

Init ==
  /\ pc = "main"
  /\ content \in Documents
  /\ skipApi \in BOOLEAN
  /\ payload = Undefined
  /\ lineMap = <<>>
  /\ lines = <<>>
  /\ index = 0
  /\ chars = <<>>
  /\ phrases = <<>>
  /\ pos = 0
  /\ translation = Undefined
  /\ RunIdle

\* main, lines 36-37: the --skip-api path
CreateEmpty ==
  /\ pc = "main" /\ skipApi
  /\ translation' = createEmptyTranslation(content)
  /\ pc' = "done"
  /\ UNCHANGED <<content, skipApi, payload, lineMap, lines, index, chars, phrases, pos>>
  /\ UNCHANGED runVars

\* main, lines 39-40: the provider returns a payload and the normaliser starts
Translate ==
  /\ pc = "main" /\ ~skipApi
  /\ payload' \in Payloads
  /\ lineMap' = <<>>
  /\ pos' = 0
  /\ pc' = "indexing"
  /\ UNCHANGED <<content, skipApi, lines, index, chars, phrases, translation>>
  /\ UNCHANGED runVars

\* the array payload.lines.forEach runs over
LineItems == arrayOf(payload, "lines")

\* the original lines that have an entry in lineMap
RECURSIVE LinesWithEntry(_, _)
LinesWithEntry(texts, k) ==
  IF texts = <<>> THEN <<>>
  ELSE (IF k \in DOMAIN lineMap THEN <<Head(texts)>> ELSE <<>>)
       \o LinesWithEntry(Tail(texts), k + 1)

AnnotatedLinesOnly == LinesWithEntry(content.originalLines, 0)

\* line 232: the array content.originalLines.map runs over
MappedLines == content.originalLines

\* lines 225-230: one element of payload.lines
IndexItem ==
  /\ pc = "indexing" /\ pos < Len(LineItems)
  /\ \E r \in {indexLineEntry(lineMap, LineItems[pos + 1])} :
       IF IsThrow(r)
         THEN pc' = "threw" /\ UNCHANGED <<lineMap, pos>>
         ELSE pc' = pc /\ lineMap' = r.normal /\ pos' = pos + 1
  /\ UNCHANGED <<content, skipApi, payload, lines, index, chars, phrases, translation>>
  /\ UNCHANGED runVars

\* lines 232-236: the map callback starts on the next original line
BeginLine ==
  /\ \/ pc = "indexing" /\ pos = Len(LineItems)
     \/ pc = "line"
  /\ index < Len(MappedLines)
  /\ chars' = blankChars(MappedLines[index + 1])
  /\ phrases' = <<>>
  /\ pos' = 0
  /\ pc' = "chars"
  /\ UNCHANGED <<content, skipApi, payload, lineMap, lines, index, translation>>
  /\ UNCHANGED runVars

payloadLine == MapGet(lineMap, index)
CharItems == arrayOf(payloadLine, "chars")
PhraseItems == arrayOf(payloadLine, "phrases")

\* lines 239-253: one element of payloadLine.chars
CharEntry ==
  /\ pc = "chars" /\ pos < Len(CharItems)
  /\ \E r \in {applyCharEntry(chars, ArrayFrom(MappedLines[index + 1]),
                              CharItems[pos + 1])} :
       IF IsThrow(r)
         THEN pc' = "threw" /\ UNCHANGED <<chars, pos>>
         ELSE pc' = pc /\ chars' = r.normal /\ pos' = pos + 1
  /\ UNCHANGED <<content, skipApi, payload, lineMap, lines, index, phrases, translation>>
  /\ UNCHANGED runVars

\* line 255: the chars are done, the phrases follow
BeginPhrases ==
  /\ pc = "chars" /\ pos = Len(CharItems)
  /\ pos' = 0
  /\ pc' = "phrases"
  /\ UNCHANGED <<content, skipApi, payload, lineMap, lines, index, chars, phrases,
                 translation>>
  /\ UNCHANGED runVars

\* lines 256-269: one element of payloadLine.phrases
PhraseEntry ==
  /\ pc = "phrases" /\ pos < Len(PhraseItems)
  /\ \E r \in {applyPhraseEntry(phrases, Len(chars), PhraseItems[pos + 1])} :
       IF IsThrow(r)
         THEN pc' = "threw" /\ UNCHANGED <<phrases, pos>>
         ELSE pc' = pc /\ phrases' = r.normal /\ pos' = pos + 1
  /\ UNCHANGED <<content, skipApi, payload, lineMap, lines, index, chars, translation>>
  /\ UNCHANGED runVars

\* line 272: the map callback returns the line
EndLine ==
  /\ pc = "phrases" /\ pos = Len(PhraseItems)
  /\ lines' = Append(lines, [text |-> MappedLines[index + 1],
                             chars |-> chars, phrases |-> phrases])
  /\ index' = index + 1
  /\ pc' = "line"
  /\ UNCHANGED <<content, skipApi, payload, lineMap, chars, phrases, pos, translation>>
  /\ UNCHANGED runVars

\* lines 274-276: summary, title and the return
Finish ==
  /\ \/ pc = "indexing" /\ pos = Len(LineItems)
     \/ pc = "line"
  /\ index = Len(MappedLines)
  /\ \E r \in {translationResult(lines, pickString(payload, SummaryKeys),
                                 pickString(payload, TitleKeys))} :
       IF IsThrow(r)
         THEN pc' = "threw" /\ UNCHANGED translation
         ELSE pc' = "done" /\ translation' = r
  /\ UNCHANGED <<content, skipApi, payload, lineMap, lines, index, chars, phrases, pos>>
  /\ UNCHANGED runVars

Next ==
  \/ CreateEmpty
  \/ Translate
  \/ IndexItem
  \/ BeginLine
  \/ CharEntry
  \/ BeginPhrases
  \/ PhraseEntry
  \/ EndLine
  \/ Finish

Spec == Init /\ [][Next]_vars

\* the stepwise run returns what the function computes
StepsAgree ==
  pc = "done" /\ ~skipApi => translation = normaliseTranslation(content, payload)

\* --------------------------------------- parseContent as a state machine

\* the normaliser is not running
NormaliserIdle ==
  /\ skipApi = FALSE
  /\ payload = Undefined
  /\ lineMap = <<>>
  /\ lines = <<>>
  /\ index = 0
  /\ chars = <<>>
  /\ phrases = <<>>
  /\ pos = 0
  /\ translation = Undefined

normaliserVars == <<skipApi, payload, lineMap, lines, index, chars, phrases, pos,
                    translation>>

\* main, lines 29-30: parseContent is called with the text of a file
ParseInit ==
  /\ pc = "parseContent"
  /\ raw \in Texts
  /\ sections = Undefined
  /\ content = Undefined
  /\ NormaliserIdle
  /\ MainIdle
  /\ PageIdle

\* lines 111-124: the markers are located and the text is cut
SplitSections ==
  /\ pc = "parseContent"
  /\ sections' = sectionsOf(raw)
  /\ pc' = "sections"
  /\ UNCHANGED <<raw, content, normaliserVars, mainVars, pageVars>>

\* lines 125-131: the original lines are extracted and the result returned
ExtractLines ==
  /\ pc = "sections"
  /\ content' = parsedOf(sections)
  /\ pc' = "parsed"
  /\ UNCHANGED <<raw, sections, normaliserVars, mainVars, pageVars>>

ParseNext ==
  \/ SplitSections
  \/ ExtractLines

ParseSpec == ParseInit /\ [][ParseNext]_vars

\* the stepwise run returns what the function computes
ParseStepsAgree == pc = "parsed" => content = parseContent(raw)

\* ------------------------------------------------ main as a state machine

\* the locals of normaliseTranslation and parseContent, which main runs
\* as single steps
stepVars == <<lineMap, lines, index, chars, phrases, pos, sections, pageVars>>

inputVars == <<options, env, manifestFile, fetchAvailable, skipApi>>

\* lines 7-11: main is entered with the options parseArgs gives for the
\* command line, in an environment that settles what the run will find
MainInit ==
  /\ pc = "main"
  /\ \E s \in ApiSettings, f \in FilesOptions :
       /\ options = [files |-> f, apiUrl |-> s.apiUrl, apiKey |-> s.apiKey,
                     apiModel |-> s.apiModel]
       /\ env = s.env
  /\ skipApi \in BOOLEAN
  /\ manifestFile \in ManifestReads
  /\ fetchAvailable \in BOOLEAN
  /\ targets = <<>>
  /\ apiConfig = Undefined
  /\ visited = 0
  /\ generated = <<>>
  /\ events = <<>>
  /\ response = Undefined
  /\ exitCode = 0
  /\ error = "none"
  /\ raw = <<>>
  /\ content = Undefined
  /\ payload = Undefined
  /\ translation = Undefined
  /\ lineMap = <<>> /\ lines = <<>> /\ index = 0
  /\ chars = <<>> /\ phrases = <<>> /\ pos = 0
  /\ sections = Undefined
  /\ PageIdle

\* lines 1044-1047: main() rejects and the catch handler sets the exit code
Abort(message) ==
  /\ pc' = "failed"
  /\ error' = message
  /\ exitCode' = 1

\* the item the loop is at
meta == targets[visited + 1]

\* the name of the navigation page (line 59)
NavigationName == <<"liaozhai-book-index", ".html">>

\* line 12: the output directory is asked for; main waits for fs.mkdir
MakeOutDir ==
  /\ pc = "main"
  /\ pc' = "mkdir"
  /\ UNCHANGED <<inputVars, response, targets, apiConfig, visited, generated, events,
                 raw, content, payload, translation, error, exitCode, stepVars>>

\* lines 12-15: fs.mkdir settles; main asks for the manifest and waits for
\* readJson, or the rejection ends the run
OutDirMade ==
  /\ pc = "mkdir"
  /\ \E made \in BOOLEAN :
       IF made
         THEN pc' = "manifest" /\ UNCHANGED <<error, exitCode>>
         ELSE Abort("mkdir")
  /\ UNCHANGED <<inputVars, response, targets, apiConfig, visited, generated, events,
                 raw, content, payload, translation, stepVars>>

\* lines 15-19: readJson settles; the manifest is filtered
SelectTargets ==
  /\ pc = "manifest"
  /\ IF IsThrow(manifestFile)
       THEN Abort("manifest") /\ UNCHANGED targets
       ELSE /\ targets' = filterManifest(manifestFile.normal, options.files)
            /\ IF targets' = <<>>
                 THEN Abort("selection")
                 ELSE pc' = "config" /\ UNCHANGED <<error, exitCode>>
  /\ UNCHANGED <<inputVars, response, apiConfig, visited, generated, events, raw, content,
                 payload, translation, stepVars>>

\* lines 21-26: the provider settings are resolved and checked
CheckConfig ==
  /\ pc = "config"
  /\ apiConfig' = resolveApiConfig(options, env)
  /\ IF ~skipApi /\ configMissing(apiConfig')
       THEN Abort("config")
       ELSE pc' = "loop" /\ UNCHANGED <<error, exitCode>>
  /\ UNCHANGED <<inputVars, response, targets, visited, generated, events, raw, content,
                 payload, translation, stepVars>>

\* the document is never taken for empty
neverEmpty(parsed) == FALSE

\* line 31: !parsed.originalLines.length
nothingToAnnotate(parsed) == Len(parsed.originalLines) = 0

ReadEvent == [type |-> "readFile", doc |-> visited + 1]
SkipEvent == [type |-> "warn", doc |-> visited + 1]
FetchEvent == [type |-> "fetch", doc |-> visited + 1]

\* line 27: the loop is at its head
loopReady == pc = "loop"

\* lines 27-29: the loop takes the next item and asks for its file; main
\* waits for the read
RequestDocument ==
  /\ loopReady /\ visited < Len(targets)
  /\ events' = Append(events, ReadEvent)
  /\ pc' = "reading"
  /\ UNCHANGED <<inputVars, response, targets, apiConfig, visited, generated, raw,
                 content, payload, translation, error, exitCode, stepVars>>

\* lines 29-34: the read settles; the text is split, and a document without
\* original lines is skipped
ReadDocument ==
  /\ pc = "reading"
  /\ \E r \in {readFile(meta.file)} :
       IF IsThrow(r)
         THEN /\ Abort("readFile")
              /\ UNCHANGED <<raw, content, visited, events>>
         ELSE /\ raw' = r.normal
              /\ content' = parseContent(r.normal)
              /\ IF nothingToAnnotate(content')
                   THEN /\ events' = Append(events, SkipEvent)
                        /\ visited' = visited + 1
                        /\ pc' = "loop"
                   ELSE /\ pc' = "annotate"
                        /\ UNCHANGED <<visited, events>>
              /\ UNCHANGED <<error, exitCode>>
  /\ UNCHANGED <<inputVars, response, targets, apiConfig, generated, payload,
                 translation, stepVars>>

\* the provider is asked whatever the options say
neverSkipped(skip) == FALSE

\* line 36: options.skipApi
annotationSkipped(skip) == skip

\* lines 36-37: the empty annotation of --skip-api
EmptyAnnotation ==
  /\ pc = "annotate" /\ annotationSkipped(skipApi)
  /\ translation' = createEmptyTranslation(content)
  /\ pc' = "write"
  /\ UNCHANGED <<inputVars, response, targets, apiConfig, visited, generated, events,
                 raw, content, payload, error, exitCode, stepVars>>

\* lines 39, 135-171: translateWithDeepseek sends the request, or raises
\* when there is no fetch
SendRequest ==
  /\ pc = "annotate" /\ ~annotationSkipped(skipApi)
  /\ IF ~fetchAvailable
       THEN Abort("fetch") /\ UNCHANGED events
       ELSE /\ events' = Append(events, FetchEvent)
            /\ pc' = "awaiting"
            /\ UNCHANGED <<error, exitCode>>
  /\ UNCHANGED <<inputVars, response, targets, apiConfig, visited, generated, raw,
                 content, payload, translation, stepVars>>

ResponseEvent(res) ==
  [type |-> "response", doc |-> visited + 1, rejected |-> res.rejected, ok |-> res.ok]

\* lines 164-176: fetch settles; a rejection ends the run, a response has
\* its body asked for (res.text() when it is not ok, res.json() otherwise)
\* and translateWithDeepseek waits for it
ReceiveResponse ==
  /\ pc = "awaiting"
  /\ \E res \in Responses :
       /\ events' = Append(events, ResponseEvent(res))
       /\ IF res.rejected
            THEN Abort("provider") /\ UNCHANGED response
            ELSE /\ response' = res
                 /\ pc' = "body"
                 /\ UNCHANGED <<error, exitCode>>
  /\ UNCHANGED <<inputVars, targets, apiConfig, visited, generated, raw, content,
                 payload, translation, stepVars>>

\* lines 173-185 and 40: the body has arrived; translateWithDeepseek raises
\* or returns the payload, which is normalised
ReadBody ==
  /\ pc = "body"
  /\ response' = Undefined
  /\ \E r \in {payloadOfResponse(response)} :
       IF IsThrow(r)
         THEN Abort("provider") /\ UNCHANGED <<payload, translation>>
         ELSE /\ payload' = r.normal
              /\ \E n \in {normaliseTranslation(content, r.normal)} :
                   IF IsThrow(n)
                     THEN Abort("normalise") /\ UNCHANGED translation
                     ELSE /\ translation' = n
                          /\ pc' = "write"
                          /\ UNCHANGED <<error, exitCode>>
  /\ UNCHANGED <<inputVars, targets, apiConfig, visited, generated, events, raw,
                 content, stepVars>>

\* the entry is recorded and the loop goes on while the page is not written
WritePageUnawaited ==
  /\ pc = "write"
  /\ generated' = Append(generated, generatedEntry(meta, translation))
  /\ visited' = visited + 1
  /\ pc' = "loop"
  /\ UNCHANGED <<inputVars, response, targets, apiConfig, raw, content, payload,
                 translation, error, exitCode, stepVars, events>>

\* lines 42-45: the page is built and its write is asked for; main waits
\* for the write
WritePage ==
  /\ pc = "write"
  /\ events' = Append(events, [type |-> "writeFile", doc |-> visited + 1,
                                name |-> outNameOf(meta.file),
                                data |-> buildPageHtml(meta, content, translation)])
  /\ pc' = "writing"
  /\ UNCHANGED <<inputVars, response, targets, apiConfig, visited, generated, raw,
                 content, payload, translation, error, exitCode, stepVars>>

\* lines 45-50: the write settles; the entry of the page is recorded and
\* the loop goes on, or the rejection ends the run
PageWritten ==
  /\ pc = "writing"
  /\ \E written \in BOOLEAN :
       IF written
         THEN /\ generated' = Append(generated, generatedEntry(meta, translation))
              /\ visited' = visited + 1
              /\ pc' = "loop"
              /\ UNCHANGED <<error, exitCode>>
         ELSE Abort("writeFile") /\ UNCHANGED <<generated, visited>>
  /\ UNCHANGED <<inputVars, response, targets, apiConfig, events, raw, content,
                 payload, translation, stepVars>>

\* the navigation page written before the loop has ended
WriteNavigationEarly ==
  /\ pc = "loop" /\ generated # <<>>
  /\ events' = Append(events, [type |-> "writeFile", doc |-> 0,
                                 name |-> NavigationName,
                                 data |-> generated])
  /\ pc' = "navigation"
  /\ UNCHANGED <<inputVars, response, targets, apiConfig, visited, generated, raw,
                 content, payload, translation, error, exitCode, stepVars>>

\* lines 53-60: after the loop main returns when no page was generated;
\* otherwise the write of the navigation page is asked for and main waits
WriteNavigation ==
  /\ pc = "loop" /\ visited = Len(targets)
  /\ IF generated = <<>>
       THEN /\ pc' = "done"
            /\ UNCHANGED events
       ELSE /\ events' = Append(events, [type |-> "writeFile", doc |-> 0,
                                         name |-> NavigationName,
                                         data |-> generated])
            /\ pc' = "navigation"
  /\ UNCHANGED <<inputVars, response, targets, apiConfig, visited, generated, raw,
                 content, payload, translation, error, exitCode, stepVars>>

\* lines 60-62: the write of the navigation page settles; main returns, or
\* the rejection ends the run
NavigationWritten ==
  /\ pc = "navigation"
  /\ \E written \in BOOLEAN :
       IF written
         THEN pc' = "done" /\ UNCHANGED <<error, exitCode>>
         ELSE Abort("writeFile")
  /\ UNCHANGED <<inputVars, response, targets, apiConfig, visited, generated, events,
                 raw, content, payload, translation, stepVars>>

MainNext ==
  \/ MakeOutDir
  \/ OutDirMade
  \/ SelectTargets
  \/ CheckConfig
  \/ RequestDocument
  \/ ReadDocument
  \/ EmptyAnnotation
  \/ SendRequest
  \/ ReceiveResponse
  \/ ReadBody
  \/ WritePage
  \/ PageWritten
  \/ WriteNavigation
  \/ NavigationWritten

MainSpec == MainInit /\ [][MainNext]_vars

\* ------------------------------------------ the page as a state machine

\* what the page script leaves alone
pageFrame == <<content, skipApi, payload, translation, raw, lineMap, lines, index,
               chars, phrases, pos, sections, mainVars, call>>

\* the page main wrote for PageMeta, with what localStorage holds for it
PageGiven ==
  /\ content = PageContent
  /\ \E v \in PageVisits : payload = v[1] /\ localStorage = v[2]
  /\ translation = normaliseTranslation(content, payload)
  /\ pageData = buildPageHtml(PageMeta, content, translation)
  /\ saves = 0
  /\ skipApi = FALSE
  /\ raw = <<>>
  /\ lineMap = <<>> /\ lines = <<>> /\ index = 0
  /\ chars = <<>> /\ phrases = <<>> /\ pos = 0
  /\ sections = Undefined
  /\ MainIdle
  /\ call = Undefined

\* the page is opened in a browser
PageInit == pc = "load" /\ PageGiven /\ ScriptIdle

\* a character of the source of the script: written as it is, or after a
\* backslash
Lit(ch) == [esc |-> FALSE, ch |-> ch]
Esc(ch) == [esc |-> TRUE, ch |-> ch]

\* lines 311-1009: buildPageHtml holds the page, its script included, in
\* one template literal without a tag, so each escape sequence of the
\* script is replaced when the page is built: \n by a line feed, \u3000 by
\* the character of that code (named "u3000" here), and a backslash before
\* a quote, a backslash or another character by that character
cooked(tok) ==
  IF tok.esc /\ tok.ch = "n" THEN "LF" ELSE tok.ch

emitted(src) == [n \in 1..Len(src) |-> cooked(src[n])]

\* the string literals and the regular expression literals of the script
\* that hold an escape sequence, as the source writes them (flags left
\* out): lines 607 (the class without the marks it holds unescaped), 610,
\* 611 (two strings), 673 and 924
ScriptLiterals ==
  { <<Lit("/"), Lit("["), Esc("u3000"), Esc("s"), Esc("-"), Esc("["), Esc("]"),
      Lit("{"), Lit("}"), Lit("]"), Lit("/")>>,
    <<Lit("/"), Lit("["), Lit("&"), Lit("<"), Lit(">"), Esc("\""), Lit("'"),
      Lit("]"), Lit("/")>>,
    <<Lit("'"), Esc("\""), Lit("'")>>,
    <<Lit("'"), Esc("'"), Lit("'")>>,
    <<Lit("/"), Esc("n"), Lit("/")>>,
    <<Lit("/"), Lit("["), Esc("\\"), Lit("/"), Lit(":"), Lit("*"), Lit("?"),
      Lit("\""), Lit("<"), Lit(">"), Lit("|"), Lit("]"), Lit("/")>> }

\* the scanner of the browser on an emitted literal, from position n on:
\* the position where the literal that text[1] opens ends, 0 when a line
\* ends first. A backslash takes the next character with it; inside a
\* class of a regular expression a slash does not end the literal
RECURSIVE literalEnd(_, _, _)
literalEnd(text, n, inClass) ==
  IF n > Len(text) \/ text[n] = "LF" THEN 0
  ELSE IF text[n] = "\\"
    THEN IF n + 1 > Len(text) \/ text[n + 1] = "LF" THEN 0
         ELSE literalEnd(text, n + 2, inClass)
  ELSE IF text[1] = "/" /\ text[n] = "[" THEN literalEnd(text, n + 1, TRUE)
  ELSE IF text[1] = "/" /\ text[n] = "]" THEN literalEnd(text, n + 1, FALSE)
  ELSE IF text[n] = text[1] /\ ~inClass THEN n
  ELSE literalEnd(text, n + 1, inClass)

\* the emitted text is still the one literal the source wrote
oneLiteral(text) == literalEnd(text, 2, FALSE) = Len(text)

\* the script element of lines 452-1008 is compiled as a whole: one literal
\* that ends early or not at all is a SyntaxError and nothing of the
\* script runs
scriptCompiles == \A src \in ScriptLiterals : oneLiteral(emitted(src))

\* lines 452-1008: the browser compiles the script of the page. Compiled,
\* it runs up to its listeners (lines 453-606 and 880-881); with a
\* SyntaxError the page stays as its markup gives it: notes is not
\* assigned, no character is rendered and no listener is registered
LoadPage ==
  /\ pc = "load"
  /\ IF scriptCompiles
       THEN notes' = loadedNotes(pageData, localStorage) /\ pc' = "page"
       ELSE pc' = "inert" /\ UNCHANGED notes
  /\ UNCHANGED <<pageData, localStorage, saves, state, phraseMode, phraseStart,
                 phraseCurrent, reselectedFrom, fields, bubble, focus, pageFrame>>

\* the page is open: its script has run, or could not be compiled
PageOpen == pc \in {"page", "inert"}

\* lines 812 and 883-995: the listeners the script registers when it runs
Listeners ==
  {"char", "document", "keydown", "scroll", "togglePhrase", "resetSelection",
   "exportJson", "saveNote", "deleteNote", "phSave", "phDelete"}

registered == IF pc = "page" THEN Listeners ELSE {}

\* lines 670-688: showBubble, its callback left to the next frame
showBubble(b) == [b EXCEPT !.display = "block", !.pending = TRUE]

\* lines 690-694
hideBubble(b) == [b EXCEPT !.display = "none", !.ariaHidden = "true"]

\* lines 869-878: resetView, the bubble being b when it is called
resetView(b) ==
  /\ state' = NoSelection
  /\ phraseCurrent' = NoPhrase
  /\ reselectedFrom' = NoPhrase
  /\ fields' = EmptyFields
  /\ bubble' = hideBubble(b)

\* lines 883-887: the click listener of the document for a target outside
\* the characters and the bubble
documentClick(b) == phraseStart' = Null /\ resetView(b)

\* phrase.s + '-' + phrase.e
rangeText(s, e) == numeral(s) \o <<"-">> \o numeral(e)

\* String.prototype.split('-')
RECURSIVE splitDash(_, _)
splitDash(s, cur) ==
  IF s = <<>> THEN <<cur>>
  ELSE IF Head(s) = "-" THEN <<cur>> \o splitDash(Tail(s), <<>>)
  ELSE splitDash(Tail(s), Append(cur, Head(s)))

\* Number(parts[k]) (0-based)
partNumber(parts, k) == IF k < Len(parts) THEN StringToNumber(parts[k + 1]) ELSE NaN

\* lines 708-716: phraseCurrent after showPhraseDetails(payload)
currentOfRange(current, line, s, e) ==
  IF IsInteger(s) /\ IsInteger(e)
    THEN [line |-> line, s |-> IntValue(s), e |-> IntValue(e)]
  ELSE [current EXCEPT !.line = line]

currentOf(current, line, range) ==
  currentOfRange(current, line, partNumber(splitDash(range, <<>>), 0),
                 partNumber(splitDash(range, <<>>), 1))

\* line 607: punctuationRe.test(ch) for the characters of the model
punctuation(ch) == Head(ch) \in WhiteSpace

lineText(li) == pageData.lines[li + 1].text

\* the characters render gives a click listener (lines 797-818)
Clickable ==
  {t \in (0..(Len(pageData.lines) - 1)) \X (0..2) :
     /\ t[2] < Len(ArrayFrom(lineText(t[1])))
     /\ ~punctuation(ArrayFrom(lineText(t[1]))[t[2] + 1])}

\* lines 844-864: what showPhraseDetails and showCharDetails put into the
\* inputs of the two panels for the clicked cell and the phrase
\* findPhraseByIndex gave
shownFields(li, cell, phrase) ==
  IF phrase = Null
    THEN [EmptyFields EXCEPT !.fieldChar = cell.c,
                             !.fieldPinyin = cell.p,
                             !.fieldGloss = cell.g]
  ELSE [fieldChar |-> cell.c,
        fieldPinyin |-> cell.p,
        fieldGloss |-> cell.g,
        phText |-> getPhraseText(lineText(li), phrase.s, phrase.e),
        phRange |-> rangeText(phrase.s, phrase.e),
        phPinyin |-> stringOf(OrValue(phrase.p, Str(cell.p))),
        phGloss |-> stringOf(OrValue(phrase.g, Str(cell.g)))]

\* lines 840-862: a click outside phrase mode, cell being the clicked cell
\* and phrase what findPhraseByIndex gave
showClicked(li, ci, cell, phrase) ==
  /\ state' = [line |-> li, index |-> ci]
  /\ phraseCurrent' =
       IF phrase = Null THEN NoPhrase
       ELSE currentOf(phraseCurrent, li, rangeText(phrase.s, phrase.e))
  /\ fields' = shownFields(li, cell, phrase)
  /\ bubble' = showBubble(bubble)
  /\ reselectedFrom' = NoPhrase
  /\ UNCHANGED phraseStart

\* lines 758-771: loadPhraseEditor, exist being what getPhrase gave
loadPhraseEditor(li, s, e, exist) ==
  /\ phraseCurrent' = [line |-> li, s |-> s, e |-> e]
  /\ reselectedFrom' =
       IF phraseCurrent = [line |-> li, s |-> s, e |-> e] THEN reselectedFrom
       ELSE IF phraseCurrent.line = li
               /\ getPhrase(notes.phrases, li, phraseCurrent.s, phraseCurrent.e) # Null
         THEN phraseCurrent
       ELSE NoPhrase
  /\ fields' = [fields EXCEPT !.phText = getPhraseText(lineText(li), s, e),
                              !.phRange = rangeText(s, e),
                              !.phPinyin = IF exist = Null THEN <<>>
                                           ELSE stringOf(OrValue(exist.p, Str(<<>>))),
                              !.phGloss = IF exist = Null THEN <<>>
                                          ELSE stringOf(OrValue(exist.g, Str(<<>>)))]

\* lines 820-867: a click on a character; the click listener of the
\* document returns at once (line 884)
ClickChar ==
  /\ pc = "page"
  /\ \E t \in Clickable :
       IF phraseMode
         THEN /\ IF phraseStart # Null /\ phraseStart.line = t[1]
                   THEN /\ phraseStart' = Null
                        /\ \E s \in {IF phraseStart.index < t[2] THEN phraseStart.index ELSE t[2]},
                              e \in {IF phraseStart.index < t[2] THEN t[2] ELSE phraseStart.index} :
                             loadPhraseEditor(t[1], s, e, getPhrase(notes.phrases, t[1], s, e))
                   ELSE /\ phraseStart' = [line |-> t[1], index |-> t[2]]
                        /\ UNCHANGED <<phraseCurrent, reselectedFrom, fields>>
              /\ UNCHANGED <<state, bubble>>
         ELSE showClicked(t[1], t[2], notes.lines[t[1] + 1][t[2] + 1],
                          findPhraseByIndex(notes.phrases, t[1], t[2]))
  /\ focus' = "other"
  /\ UNCHANGED <<pc, pageData, localStorage, saves, notes, phraseMode, pageFrame>>

\* the inputs that are not read-only, those the user of the model types
\* into, and the places of the page that are neither an input, a character
\* nor a button with a listener
EditableFields == {"fieldPinyin", "fieldGloss", "phText", "phPinyin", "phGloss"}
TypedFields == EditableFields
OtherTargets == {"other"}

\* lines 883-887: a click into an input or on another place of the page;
\* the click listener of the document resets the view when the script has
\* registered it
ClickOutside ==
  /\ PageOpen
  /\ \E target \in EditableFields \cup OtherTargets : focus' = target
  /\ IF "document" \in registered
       THEN documentClick(bubble)
       ELSE UNCHANGED <<phraseStart, state, phraseCurrent, reselectedFrom, fields, bubble>>
  /\ UNCHANGED <<pc, pageData, localStorage, saves, notes, phraseMode, pageFrame>>

\* lines 382-427: the buttons and inputs of the page in the order of the
\* document, which is the order Tab follows; a button or a read-only input
\* is "other": togglePhrase, resetSelection, exportJson, phLine, phText,
\* phRange, phPinyin, phGloss, phSave, phDelete, fieldChar, fieldPinyin,
\* fieldGloss, saveNote, deleteNote
TabOrder ==
  <<"other", "other", "other", "other", "phText", "other", "phPinyin", "phGloss",
    "other", "other", "other", "fieldPinyin", "fieldGloss", "other", "other">>

\* where Tab or Shift+Tab takes the focus from f
TabTargets(f) ==
  {TabOrder[m] : m \in {m \in DOMAIN TabOrder :
                          \E n \in DOMAIN TabOrder :
                            TabOrder[n] = f /\ (m = n + 1 \/ m = n - 1)}}

\* lines 889-894 for a key that is not Escape: Tab and Shift+Tab move the
\* focus to the next or the former element; the keydown listener, where
\* registered, does nothing for the key
PressTab ==
  /\ PageOpen
  /\ focus' \in TabTargets(focus)
  /\ UNCHANGED <<pc, pageData, localStorage, saves, notes, state, phraseMode, phraseStart,
                 phraseCurrent, reselectedFrom, fields, bubble, pageFrame>>

\* text typed into the input that has the focus
TypeText ==
  /\ PageOpen
  /\ focus \in TypedFields
  /\ \E value \in TypedValues : fields' = [fields EXCEPT ![focus] = value]
  /\ UNCHANGED <<pc, pageData, localStorage, saves, notes, state, phraseMode, phraseStart,
                 phraseCurrent, reselectedFrom, bubble, focus, pageFrame>>

\* the calls of store.save are counted up to this number
MaxSaves == 1

\* lines 621-623 and 515-521: saveToStore, called once notes' is known.
\* setItem stores the serialised notes, or it throws (the storage is full
\* or denied): store.save catches that with a warning and localStorage
\* keeps what it held
saveToStore ==
  /\ \E stored \in BOOLEAN :
       localStorage' = IF stored THEN storedOf(notes') ELSE localStorage
  /\ saves' = IF saves < MaxSaves THEN saves + 1 ELSE saves

\* lines 939-944: the rows with the cell of the selection replaced
withCell(rows, sel, p, g) ==
  [rows EXCEPT ![sel.line + 1][sel.index + 1] =
     [c |-> rows[sel.line + 1][sel.index + 1].c, p |-> p, g |-> g]]

\* lines 932-951 and 883-887: a click on saveNote runs the listener of the
\* button and then the click listener of the document
ClickSave ==
  /\ pc = "page"
  /\ IF state.line < 0 \/ state.index < 0
       THEN /\ UNCHANGED <<notes, localStorage, saves>>
            /\ documentClick(bubble)
       ELSE /\ notes' = [notes EXCEPT !.lines =
                           withCell(notes.lines, state, Trim(fields.fieldPinyin),
                                    Trim(fields.fieldGloss))]
            /\ saveToStore
            /\ documentClick(showBubble(bubble))
  /\ focus' = "other"
  /\ UNCHANGED <<pc, pageData, phraseMode, pageFrame>>

\* lines 955-968 and 883-887
ClickDelete ==
  /\ pc = "page"
  /\ IF state.line < 0 \/ state.index < 0
       THEN UNCHANGED <<notes, localStorage, saves>>
       ELSE /\ notes' = [notes EXCEPT !.lines = withCell(notes.lines, state, <<>>, <<>>)]
            /\ saveToStore
  /\ documentClick(bubble)
  /\ focus' = "other"
  /\ UNCHANGED <<pc, pageData, phraseMode, pageFrame>>

\* line 972: nothing is loaded in the phrase panel
nothingLoaded == phraseCurrent.line < 0 \/ phraseCurrent.s < 0 \/ phraseCurrent.e < 0

\* lines 972-991 and 883-887
ClickPhSave ==
  /\ pc = "page"
  /\ IF nothingLoaded \/ Trim(fields.phText) = <<>>
       THEN /\ UNCHANGED <<notes, localStorage, saves>>
            /\ documentClick(bubble)
       ELSE /\ notes' = [notes EXCEPT !.phrases =
                           upsertPhrase(notes.phrases, phraseCurrent.line,
                                        phraseCurrent.s, phraseCurrent.e,
                                        Trim(fields.phPinyin), Trim(fields.phGloss))]
            /\ saveToStore
            /\ documentClick(showBubble(bubble))
  /\ focus' = "other"
  /\ UNCHANGED <<pc, pageData, phraseMode, pageFrame>>

\* lines 995-1003 and 883-887
ClickPhDelete ==
  /\ pc = "page"
  /\ IF nothingLoaded
       THEN UNCHANGED <<notes, localStorage, saves>>
       ELSE /\ notes' = [notes EXCEPT !.phrases =
                           removePhrase(notes.phrases, phraseCurrent.line,
                                        phraseCurrent.s, phraseCurrent.e)]
            /\ saveToStore
  /\ documentClick(bubble)
  /\ focus' = "other"
  /\ UNCHANGED <<pc, pageData, phraseMode, pageFrame>>

\* lines 899-904 and 883-887
ClickToggle ==
  /\ pc = "page"
  /\ phraseMode' = ~phraseMode
  /\ documentClick(bubble)
  /\ focus' = "other"
  /\ UNCHANGED <<pc, pageData, localStorage, saves, notes, pageFrame>>

\* lines 908-911 and 883-887
ClickReset ==
  /\ pc = "page"
  /\ documentClick(bubble)
  /\ focus' = "other"
  /\ UNCHANGED <<pc, pageData, localStorage, saves, notes, phraseMode, pageFrame>>

\* lines 889-894: Escape
PressEscape ==
  /\ pc = "page"
  /\ documentClick(bubble)
  /\ UNCHANGED <<pc, pageData, localStorage, saves, notes, phraseMode, focus, pageFrame>>

\* line 896: a scroll event
Scroll ==
  /\ pc = "page"
  /\ bubble' = hideBubble(bubble)
  /\ UNCHANGED <<pc, pageData, localStorage, saves, notes, state, phraseMode, phraseStart,
                 phraseCurrent, reselectedFrom, fields, focus, pageFrame>>

\* lines 676-687: the browser runs the queued callbacks of showBubble
\* before it paints the next frame
AnimationFrame ==
  /\ pc = "page"
  /\ bubble.pending
  /\ bubble' = [bubble EXCEPT !.ariaHidden = "false", !.pending = FALSE]
  /\ UNCHANGED <<pc, pageData, localStorage, saves, notes, state, phraseMode, phraseStart,
                 phraseCurrent, reselectedFrom, fields, focus, pageFrame>>

\* the page is loaded again: localStorage is all that is left of the visit
Reload ==
  /\ PageOpen
  /\ pc' = "load"
  /\ notes' = Undefined
  /\ state' = NoSelection
  /\ phraseMode' = FALSE
  /\ phraseStart' = Null
  /\ phraseCurrent' = NoPhrase
  /\ reselectedFrom' = NoPhrase
  /\ fields' = EmptyFields
  /\ bubble' = HiddenBubble
  /\ focus' = "other"
  /\ UNCHANGED <<pageData, localStorage, saves, pageFrame>>

\* the steps of the listeners, for a page whose script has registered them
ScriptNext ==
  \/ ClickChar
  \/ ClickSave
  \/ ClickDelete
  \/ ClickPhSave
  \/ ClickPhDelete
  \/ ClickToggle
  \/ ClickReset
  \/ PressEscape
  \/ Scroll
  \/ AnimationFrame

\* the steps of the page main writes: its script is not compiled, so what
\* is left is what the browser does with the markup on its own
PageNext ==
  \/ LoadPage
  \/ ClickOutside
  \/ PressTab
  \/ TypeText
  \/ Reload

PageSpec == PageInit /\ [][PageNext]_vars

\* ------------------------- the functions of the script, each on its own

\* The functions the script declares are applied one at a time to what a
\* page main wrote gives them: the page data, what localStorage holds, the
\* characters render gives a click listener and the ranges a selection in
\* phrase mode gives; the two listeners of the side panel that change a
\* character note are applied to a selection and to what the inputs hold.
\* The page as main writes it calls none of them (see LoadPage).

functionFrame == <<pageData, localStorage, saves, notes, state, phraseMode, phraseStart,
                   phraseCurrent, reselectedFrom, fields, bubble, focus, content,
                   skipApi, payload, translation, raw, lineMap, lines, index, chars,
                   phrases, pos, sections, mainVars>>

\* what an input of a panel holds when its listener reads it
InputValues == TypedValues \cup {<<>>}

\* the bubble after showBubble, before and after the callback it left to
\* the next frame
ShownBubbles ==
  { showBubble(HiddenBubble),
    [showBubble(HiddenBubble) EXCEPT !.ariaHidden = "false", !.pending = FALSE] }

\* what a listener of the side panel finds: the notes of lines 577-581, no
\* character selected (lines 603-605) or one selected as onCharClick leaves
\* it (lines 839-865), and the two inputs as shown or typed into
ListenerInputs ==
  /\ notes = loadedNotes(pageData, localStorage)
  /\ phraseMode = FALSE
  /\ phraseStart = Null
  /\ reselectedFrom = NoPhrase
  /\ focus = "other"
  /\ \/ /\ state = NoSelection
        /\ phraseCurrent = NoPhrase
        /\ bubble = HiddenBubble
        /\ \E p \in InputValues, g \in InputValues :
             fields = [EmptyFields EXCEPT !.fieldPinyin = p, !.fieldGloss = g]
     \/ \E t \in Clickable :
          /\ state = [line |-> t[1], index |-> t[2]]
          /\ \E phrase \in {findPhraseByIndex(notes.phrases, t[1], t[2])} :
               /\ phraseCurrent =
                    IF phrase = Null THEN NoPhrase
                    ELSE currentOf(NoPhrase, t[1], rangeText(phrase.s, phrase.e))
               /\ \E p \in InputValues \cup {notes.lines[t[1] + 1][t[2] + 1].p},
                     g \in InputValues \cup {notes.lines[t[1] + 1][t[2] + 1].g} :
                    fields = [shownFields(t[1], notes.lines[t[1] + 1][t[2] + 1], phrase)
                                EXCEPT !.fieldPinyin = p, !.fieldGloss = g]
          /\ bubble \in ShownBubbles

\* a function is applied to the page as it is given, or a listener to what
\* it finds
FunctionInit ==
  /\ PageGiven
  /\ \/ pc = "call" /\ ScriptIdle
     \/ pc = "listener" /\ ListenerInputs

\* lines 578-580: stored notes that pass isValidStored are merged into a
\* clone of the base notes
ApplyMergeStored ==
  /\ pc = "call"
  /\ isValidStored(pageData, storeLoad(localStorage))
  /\ call' = [fn |-> "mergeStored",
              value |-> mergeStored(cloneBaseNotes(pageData), storeLoad(localStorage))]
  /\ pc' = "returned"
  /\ UNCHANGED functionFrame

\* lines 644-653 as line 841 calls them: findPhraseByIndex for a character
\* of the text, on the notes of lines 577-581
ApplyFindPhraseByIndex ==
  /\ pc = "call"
  /\ \E t \in Clickable :
       call' = [fn |-> "findPhraseByIndex", line |-> t[1], index |-> t[2],
                value |-> findPhraseByIndex(loadedNotes(pageData, localStorage).phrases,
                                            t[1], t[2])]
  /\ pc' = "returned"
  /\ UNCHANGED functionFrame

\* the ranges of the records the notes hold for line li
RangesOf(list, li) == {[line |-> li, s |-> list[n].s, e |-> list[n].e] : n \in 1..Len(list)}

\* lines 773-788 as line 984 calls them: a record of the line, or none,
\* was loaded in the phrase panel, then a range is selected in phrase mode,
\* of which phraseCurrent holds nothing but the line and the two ends
\* (line 761), and the save listener hands them and the trimmed inputs to
\* upsertPhrase
ApplyUpsertPhrase ==
  /\ pc = "call"
  /\ \E a \in Clickable, b \in Clickable, p \in InputValues, g \in InputValues :
       /\ a[1] = b[1] /\ a[2] <= b[2]
       /\ \E loaded \in {NoPhrase} \cup
                         RangesOf(listOf(loadedNotes(pageData, localStorage).phrases, a[1]),
                                  a[1]) :
            call' = [fn |-> "upsertPhrase", loaded |-> loaded,
                     line |-> a[1], s |-> a[2], e |-> b[2],
                     value |-> upsertPhrase(loadedNotes(pageData, localStorage).phrases,
                                            a[1], a[2], b[2], Trim(p), Trim(g))]
  /\ pc' = "returned"
  /\ UNCHANGED functionFrame

\* what the listeners of the side panel leave alone
listenerFrame == <<pageData, state, phraseMode, phraseStart, phraseCurrent,
                   reselectedFrom, focus, content, skipApi, payload, translation, raw,
                   lineMap, lines, index, chars, phrases, pos, sections, mainVars>>

\* lines 932-952: the click listener of saveNote. Without a selection it
\* returns after the alert; else it puts a cell with the character the
\* notes hold and the trimmed inputs in the place of the selected
\* character, saves the notes and shows the bubble
ApplySaveNote ==
  /\ pc = "listener"
  /\ IF state.line < 0 \/ state.index < 0
       THEN UNCHANGED <<notes, localStorage, saves, bubble>>
       ELSE /\ notes' = [notes EXCEPT !.lines =
                           withCell(notes.lines, state, Trim(fields.fieldPinyin),
                                    Trim(fields.fieldGloss))]
            /\ saveToStore
            /\ bubble' = showBubble(bubble)
  /\ call' = [fn |-> "saveNote", value |-> notes']
  /\ pc' = "returned"
  /\ UNCHANGED <<fields, listenerFrame>>

\* lines 955-969: the click listener of deleteNote. Without a selection it
\* returns; else it puts a cell with the character the notes hold and two
\* empty strings, empties the two inputs, saves the notes and hides the
\* bubble
ApplyDeleteNote ==
  /\ pc = "listener"
  /\ IF state.line < 0 \/ state.index < 0
       THEN UNCHANGED <<notes, localStorage, saves, bubble, fields>>
       ELSE /\ notes' = [notes EXCEPT !.lines = withCell(notes.lines, state, <<>>, <<>>)]
            /\ fields' = [fields EXCEPT !.fieldPinyin = <<>>, !.fieldGloss = <<>>]
            /\ saveToStore
            /\ bubble' = hideBubble(bubble)
  /\ call' = [fn |-> "deleteNote", value |-> notes']
  /\ pc' = "returned"
  /\ UNCHANGED listenerFrame

FunctionNext ==
  \/ ApplyMergeStored
  \/ ApplyFindPhraseByIndex
  \/ ApplyUpsertPhrase
  \/ ApplySaveNote
  \/ ApplyDeleteNote

FunctionSpec == FunctionInit /\ [][FunctionNext]_vars

\* ---------------------------------------------------------------- claims

Returned == pc = "done" /\ ~skipApi

\* the positions of text at which a Unicode character starts: every code
\* unit but a low surrogate that follows a high surrogate
CodePointStarts(text) ==
  {k \in 1..Len(text) :
     ~(k > 1 /\ text[k] \in LowSurrogates /\ text[k - 1] \in HighSurrogates)}

\* the j-th Unicode character of text (j from 1)
UnicodeChar(text, j) ==
  LET starts == CodePointStarts(text)
      k == CHOOSE x \in starts : Cardinality({y \in starts : y < x}) = j - 1
  IN IF k < Len(text) /\ (k + 1) \notin starts
       THEN SubSeq(text, k, k + 1)
       ELSE SubSeq(text, k, k)

UnicodeLength(text) == Cardinality(CodePointStarts(text))

\* C1: alignment invariant. The lines normaliseTranslation returns are one
\* per original line, in order, each with the text of its original line; the
\* lines finished so far are always such a prefix.
C1_Alignment ==
  /\ pc # "main" =>
       /\ Len(lines) <= Len(content.originalLines)
       /\ \A n \in 1..Len(lines) : lines[n].text = content.originalLines[n]
  /\ Returned =>
       /\ Len(translation.lines) = Len(content.originalLines)
       /\ \A n \in 1..Len(translation.lines) :
            translation.lines[n].text = content.originalLines[n]

\* a payload that is no object was normalised for a document of two lines
C1_Witness ==
  /\ Returned
  /\ ~IsObj(payload)
  /\ Len(content.originalLines) = 2
  /\ Len(translation.lines) = 2

\* c of every slot is the Unicode character at that position
CharsAuthoritative(cs, text) ==
  /\ Len(cs) = UnicodeLength(text)
  /\ \A j \in 1..Len(cs) : cs[j].c = UnicodeChar(text, j)

\* C2: character authority invariant. chars has one slot per Unicode
\* character of the line and slot j holds the j-th character of the original
\* line, whatever character the payload claims for that position.
C2_CharacterAuthority ==
  /\ pc \in {"chars", "phrases"} =>
       CharsAuthoritative(chars, content.originalLines[index + 1])
  /\ Returned =>
       \A n \in 1..Len(translation.lines) :
         CharsAuthoritative(translation.lines[n].chars, content.originalLines[n])

\* a sub-entry that claims another character for slot 0 of a line holding a
\* surrogate pair was normalised
C2_Witness ==
  /\ Returned
  /\ content.originalLines[1] = LineZai
  /\ payload = WithLines(<<EntryFor(<<Obj([i |-> Num(0), ch |-> S1("cuo"),
                                          g |-> S1("gx")])>>, <<>>)>>)
  /\ Len(translation.lines[1].chars) = 3
  /\ translation.lines[1].chars[2].c = <<"uD840", "uDC00">>

PhrasesInRange(ps, len) ==
  \A m \in 1..Len(ps) : 0 <= ps[m].s /\ ps[m].s <= ps[m].e /\ ps[m].e < len

\* C3: phrase bounds invariant. Every retained phrase has
\* 0 <= s <= e < number of chars of its line.
C3_PhraseBounds ==
  /\ pc = "phrases" => PhrasesInRange(phrases, Len(chars))
  /\ \A n \in 1..Len(lines) : PhrasesInRange(lines[n].phrases, Len(lines[n].chars))
  /\ Returned =>
       \A n \in 1..Len(translation.lines) :
         PhrasesInRange(translation.lines[n].phrases, Len(translation.lines[n].chars))

\* a phrase past the end of the line was dropped and a reversed one was kept
C3_Witness ==
  /\ Returned
  /\ payload = WithLines(<<EntryFor(<<>>,
                  <<Obj([s |-> Num(0), e |-> Num(5), g |-> S1("fb")]),
                    Obj([s |-> Num(2), e |-> Num(0), p |-> S1("qc")])>>)>>)
  /\ Len(translation.lines[1].phrases) = 1
  /\ translation.lines[1].phrases[1].s = 0
  /\ translation.lines[1].phrases[1].e = 2

\* the line the map callback is at and the sub-entry the chars forEach is at
CurrentText == content.originalLines[index + 1]
AtCharEntry == pc = "chars" /\ pos < Len(CharItems)
NextCharEntry == CharItems[pos + 1]

\* the sub-entry is an object whose position is a slot of the line
HasSlot(entry, text) ==
  /\ IsObj(entry)
  /\ ~IsNull(pickInteger(entry, CharIndexKeys))
  /\ IntValue(pickInteger(entry, CharIndexKeys)) \in 0..(UnicodeLength(text) - 1)

SlotOf(entry) == IntValue(pickInteger(entry, CharIndexKeys)) + 1

\* some character synonym key of the sub-entry holds a non-empty string that
\* is not the original character at the sub-entry's position
ClaimsOtherCharacter(entry, text) ==
  /\ HasSlot(entry, text)
  /\ \E m \in 1..Len(CharKeys) :
       /\ CharKeys[m] \in DOMAIN entry.obj
       /\ IsStr(entry.obj[CharKeys[m]])
       /\ entry.obj[CharKeys[m]].str # <<>>
       /\ entry.obj[CharKeys[m]].str # UnicodeChar(text, SlotOf(entry))

\* the keys of the list, by position, whose value in the object is a string
\* that is not empty after trimming
UsableKeys(entry, keys) ==
  {m \in 1..Len(keys) :
     /\ keys[m] \in DOMAIN entry.obj
     /\ IsStr(entry.obj[keys[m]])
     /\ Trim(entry.obj[keys[m]].str) # <<>>}

\* the trimmed value of the first usable key, <<>> when there is none
FirstUsable(entry, keys) ==
  IF UsableKeys(entry, keys) = {} THEN <<>>
  ELSE LET m == CHOOSE x \in UsableKeys(entry, keys) :
                  \A y \in UsableKeys(entry, keys) : x <= y
       IN Trim(entry.obj[keys[m]].str)

\* the character the sub-entry is taken to claim is not the original one
ExtractedOtherCharacter(entry, text) ==
  /\ HasSlot(entry, text)
  /\ FirstUsable(entry, CharKeys) # <<>>
  /\ FirstUsable(entry, CharKeys) # UnicodeChar(text, SlotOf(entry))

SlotUnchanged(entry) ==
  /\ chars'[SlotOf(entry)].p = chars[SlotOf(entry)].p
  /\ chars'[SlotOf(entry)].g = chars[SlotOf(entry)].g

\* C4 as claimed: a sub-entry with a non-empty string under any character
\* synonym key that differs from the original character at its position
\* changes neither pinyin nor gloss of that slot.
C4_RejectionLawAsClaimed ==
  [][AtCharEntry /\ ClaimsOtherCharacter(NextCharEntry, CurrentText)
       => SlotUnchanged(NextCharEntry)]_vars

\* C4 amended: a sub-entry whose claimed character, taken as the trimmed value
\* of the first character synonym key (in priority order) that holds a string
\* non-empty after trimming, differs from the original character at its
\* position changes neither pinyin nor gloss of that slot (nor anything else).
C4_RejectionLaw ==
  [][AtCharEntry /\ ExtractedOtherCharacter(NextCharEntry, CurrentText)
       => SlotUnchanged(NextCharEntry) /\ chars' = chars]_vars

\* a sub-entry claiming another character and bringing a gloss was processed
\* and its slot is still blank
C4_Witness ==
  /\ pc = "chars" /\ pos = 1
  /\ ExtractedOtherCharacter(CharItems[1], CurrentText)
  /\ FirstUsable(CharItems[1], GlossKeys) # <<>>
  /\ chars[SlotOf(CharItems[1])].g = <<>>

\* the elements of payload.lines, by position, whose extracted line index is k
EntriesWithIndex(k) ==
  {m \in 1..Len(LineItems) :
     /\ ~Falsy(LineItems[m])
     /\ pickInteger(LineItems[m], LineIndexKeys) = Num(k)}

\* the payload line entry of original line k (0-based): the last element of
\* payload.lines with that index, undefined when there is none
EntryOfLine(k) ==
  IF EntriesWithIndex(k) = {} THEN Undefined
  ELSE LineItems[CHOOSE m \in EntriesWithIndex(k) :
                   \A x \in EntriesWithIndex(k) : x <= m]

SubEntries(k) == arrayOf(EntryOfLine(k), "chars")

\* the character sub-entries of line k, by position, that are valid for the
\* slot and bring a value for the field
Suppliers(k, slot, keys) ==
  {m \in 1..Len(SubEntries(k)) :
     /\ HasSlot(SubEntries(k)[m], content.originalLines[k + 1])
     /\ SlotOf(SubEntries(k)[m]) = slot
     /\ ~ExtractedOtherCharacter(SubEntries(k)[m], content.originalLines[k + 1])
     /\ FirstUsable(SubEntries(k)[m], keys) # <<>>}

\* the value the slot must end with: that of its last supplier, else blank
ExpectedField(k, slot, keys) ==
  IF Suppliers(k, slot, keys) = {} THEN <<>>
  ELSE FirstUsable(SubEntries(k)[CHOOSE m \in Suppliers(k, slot, keys) :
                                   \A x \in Suppliers(k, slot, keys) : x <= m],
                   keys)

\* C5: payload malformation is never escalated. normaliseTranslation never
\* raises, and in its result every slot holds the values of the valid
\* sub-entries of its line and is blank where there is none: a malformed
\* field, entry or line falls back to blank and the rest is still applied.
C5_NeverEscalated ==
  /\ pc # "threw"
  /\ Returned =>
       \A n \in 1..Len(translation.lines) :
         \A j \in 1..Len(translation.lines[n].chars) :
           /\ translation.lines[n].chars[j].p = ExpectedField(n - 1, j, PinyinKeys)
           /\ translation.lines[n].chars[j].g = ExpectedField(n - 1, j, GlossKeys)

\* a null sub-entry came before a valid one, which was still applied
C5_Witness ==
  /\ Returned
  /\ payload = WithLines(<<EntryFor(<<Null, Obj([i |-> Num(1), g |-> S1("ming")])>>,
                                    <<>>)>>)
  /\ translation.lines[1].chars[2].g = <<"ming">>
  /\ translation.lines[1].chars[1].g = <<>>

\* the names the line array may have
LineArrayNames == {"lines", "entries", "items", "segments", "rows"}

\* how deep the line array may be nested
MaxNesting == 3

\* an array with an element that has a line index or a text
QualifiesAsLineArray(v) ==
  /\ IsArr(v)
  /\ \E m \in 1..Len(v.arr) :
       /\ IsObj(v.arr[m])
       /\ \/ ~IsNull(pickInteger(v.arr[m], LineIndexKeys))
          \/ ("text" \in DOMAIN v.arr[m].obj /\ IsStr(v.arr[m].obj.text))

PropertyValues(objs) == UNION {{o.obj[k] : k \in DOMAIN o.obj} : o \in objs}

NamedValues(objs) ==
  UNION {{o.obj[k] : k \in DOMAIN o.obj \cap LineArrayNames} : o \in objs}

\* the shallowest qualifying array under the objects, a named one first
RECURSIVE LocateLineArray(_, _)
LocateLineArray(objs, depth) ==
  LET named == {v \in NamedValues(objs) : QualifiesAsLineArray(v)}
      any == {v \in PropertyValues(objs) : QualifiesAsLineArray(v)}
  IN IF named # {} THEN (CHOOSE v \in named : TRUE).arr
     ELSE IF any # {} THEN (CHOOSE v \in any : TRUE).arr
     ELSE IF depth = 0 \/ objs = {} THEN <<>>
     ELSE LocateLineArray({v \in PropertyValues(objs) : IsObj(v)}, depth - 1)

\* C6: line-entry discovery. When the payload object holds its line array
\* under another accepted name or nested under unrecognised keys, the lines
\* are annotated from that array.
C6_LineDiscovery ==
  Returned /\ IsObj(payload) =>
    translation.lines =
      normaliseLines(content,
                     indexLineEntries(<<>>, LocateLineArray({payload}, MaxNesting)).normal)

\* the object with property from renamed to, when from is its only spelling
\* of the field
Respelled(v, from, to, keys) ==
  IF /\ IsObj(v)
     /\ from \in DOMAIN v.obj
     /\ \A m \in 1..Len(keys) : keys[m] # from => keys[m] \notin DOMAIN v.obj
     /\ to \notin DOMAIN v.obj
    THEN Obj([k \in (DOMAIN v.obj \ {from}) \cup {to} |->
                IF k = to THEN v.obj[from] ELSE v.obj[k]])
    ELSE v

\* the array with every element respelled
RespelledEach(v, from, to, keys) ==
  IF IsArr(v) THEN Arr([m \in 1..Len(v.arr) |-> Respelled(v.arr[m], from, to, keys)])
  ELSE v

\* the object with the elements of its array under name respelled
RespelledUnder(v, name, from, to, keys) ==
  IF IsObj(v) /\ name \in DOMAIN v.obj
    THEN Obj([v.obj EXCEPT ![name] = RespelledEach(@, from, to, keys)])
    ELSE v

\* the payload with the sub-entries of every line entry respelled
RespelledSub(v, name, from, to, keys) ==
  IF IsObj(v) /\ "lines" \in DOMAIN v.obj /\ IsArr(v.obj.lines)
    THEN Obj([v.obj EXCEPT !["lines"] =
                Arr([m \in 1..Len(@.arr) |->
                       RespelledUnder(@.arr[m], name, from, to, keys)])])
    ELSE v

Range(keys) == {keys[m] : m \in 1..Len(keys)}

\* the payloads that differ from v in the spelling of one logical field
Respellings(v) ==
  {Respelled(v, "lines", to, <<"lines">>) : to \in LineArrayNames}
  \cup {Respelled(v, "title", to, TitleKeys) : to \in Range(TitleKeys)}
  \cup {Respelled(v, "summary", to, SummaryKeys) : to \in Range(SummaryKeys)}
  \cup {RespelledUnder(v, "lines", "index", to, LineIndexKeys) :
          to \in Range(LineIndexKeys)}
  \cup {RespelledSub(v, "chars", "i", to, CharIndexKeys) : to \in Range(CharIndexKeys)}
  \cup {RespelledSub(v, "chars", "p", to, PinyinKeys) : to \in Range(PinyinKeys)}
  \cup {RespelledSub(v, "chars", "g", to, GlossKeys) : to \in Range(GlossKeys)}
  \cup {RespelledSub(v, "phrases", "s", to, StartKeys) : to \in Range(StartKeys)}
  \cup {RespelledSub(v, "phrases", "e", to, EndKeys) : to \in Range(EndKeys)}
  \cup {RespelledSub(v, "phrases", "p", to, PinyinKeys) : to \in Range(PinyinKeys)}
  \cup {RespelledSub(v, "phrases", "g", to, GlossKeys) : to \in Range(GlossKeys)}

\* C7: synonym-key tolerance. A payload that differs from the one normalised
\* only in the accepted spelling of one logical field (the line array, the
\* line index, the character position, start, end, pinyin, gloss, title,
\* summary) normalises to the same annotation.
C7_SynonymTolerance ==
  Returned => \A v \in Respellings(payload) :
                normaliseTranslation(content, v) = translation

NoLineArray == LineItems = <<>>

AllBlank(ls) ==
  \A n \in 1..Len(ls) :
    /\ ls[n].phrases = <<>>
    /\ \A j \in 1..Len(ls[n].chars) : ls[n].chars[j].p = <<>> /\ ls[n].chars[j].g = <<>>

\* C8 as claimed: with an empty or absent line array the result is identical
\* to createEmptyTranslation's.
C8_DefaultsAsClaimed ==
  Returned /\ NoLineArray => translation = createEmptyTranslation(content)

\* C8 amended: with an empty or absent line array every char has pinyin ''
\* and gloss '' and every line has no phrases, and the lines are identical to
\* those of createEmptyTranslation; title and summary are still those of the
\* payload, so the whole result is identical exactly when it has neither.
C8_Defaults ==
  Returned /\ NoLineArray =>
    /\ AllBlank(translation.lines)
    /\ translation.lines = createEmptyTranslation(content).lines
    /\ translation.title =
         (IF IsObj(payload) THEN FirstUsable(payload, TitleKeys) ELSE <<>>)
    /\ translation.summary =
         (IF IsObj(payload) THEN FirstUsable(payload, SummaryKeys) ELSE <<>>)
    /\ (translation = createEmptyTranslation(content)) <=>
         (translation.title = <<>> /\ translation.summary = <<>>)

\* a payload with an empty line array and a title was normalised
C8_Witness ==
  /\ Returned
  /\ IsObj(payload)
  /\ "lines" \in DOMAIN payload.obj
  /\ payload.obj.lines = Arr(<<>>)
  /\ translation.lines = createEmptyTranslation(content).lines
  /\ translation.title # <<>>

\* C9: index-based alignment. Original line k is annotated from the payload
\* line entry whose extracted line index is k, wherever it stands in the
\* payload array, and a line without an entry stays blank.
C9_IndexAlignment ==
  Returned =>
    \A n \in 1..Len(translation.lines) :
      /\ translation.lines[n] =
           normaliseLine(content.originalLines[n], EntryOfLine(n - 1))
      /\ IsUndefined(EntryOfLine(n - 1)) => AllBlank(<<translation.lines[n]>>)

\* the entry of line 1 came before the entry of line 0 and each line has the
\* gloss of its own entry
C9_Witness ==
  /\ Returned
  /\ Len(translation.lines) = 2
  /\ Len(LineItems) = 2
  /\ pickInteger(LineItems[1], LineIndexKeys) = Num(1)
  /\ pickInteger(LineItems[2], LineIndexKeys) = Num(0)
  /\ translation.lines[1].chars[1].g = <<"a0">>
  /\ translation.lines[2].chars[1].g = <<"a1">>

\* C10: no blanking. While the character sub-entries of a line are applied,
\* a pinyin or gloss that is set is never reset to empty, and a sub-entry
\* that brings no gloss (no pinyin) leaves every gloss (pinyin) as it was.
C10_NoBlanking ==
  [][pc = "chars" =>
       /\ Len(chars') = Len(chars)
       /\ \A j \in 1..Len(chars) :
            /\ chars[j].p # <<>> => chars'[j].p # <<>>
            /\ chars[j].g # <<>> => chars'[j].g # <<>>
            /\ AtCharEntry /\ ~IsObj(NextCharEntry) => chars'[j] = chars[j]
            /\ (AtCharEntry /\ IsObj(NextCharEntry)
                  /\ FirstUsable(NextCharEntry, PinyinKeys) = <<>>)
                 => chars'[j].p = chars[j].p
            /\ (AtCharEntry /\ IsObj(NextCharEntry)
                  /\ FirstUsable(NextCharEntry, GlossKeys) = <<>>)
                 => chars'[j].g = chars[j].g]_vars

\* two sub-entries for slot 0, the first with a pinyin only and the second
\* with a gloss only, were applied and the slot has both
C10_Witness ==
  /\ pc = "chars" /\ pos = 2
  /\ CharItems[1] = Obj([i |-> Num(0), p |-> S1("pa")])
  /\ CharItems[2] = Obj([i |-> Num(0), g |-> S1("ga")])
  /\ chars[1].p = <<"pa">>
  /\ chars[1].g = <<"ga">>

\* ------------------------------------------------- phrase sub-entries

AtPhraseEntry == pc = "phrases" /\ pos < Len(PhraseItems)
NextPhraseEntry == PhraseItems[pos + 1]

\* a value that is an integer as the contract counts it: a whole number, or
\* a string that holds the numeral of one
WholeNumberValue(v) ==
  \/ IsInteger(v)
  \/ IsStr(v) /\ Trim(v.str) # <<>> /\ IsInteger(StringToNumber(v.str))

\* entry has one of keys and an integer under it
HoldsInteger(entry, keys) ==
  /\ IsObj(entry)
  /\ \E n \in 1..Len(keys) :
       /\ keys[n] \in DOMAIN entry.obj
       /\ WholeNumberValue(entry.obj[keys[n]])

\* C11: phrases with missing or non-integer start/end are discarded. A
\* phrase sub-entry whose start or end is absent, or is null, an empty
\* string, a boolean, an array, a fraction or a non-numeric string, adds no
\* phrase to the line.
C11_MissingOrNonIntegerDiscarded ==
  [][(AtPhraseEntry
        /\ ~(HoldsInteger(NextPhraseEntry, StartKeys)
              /\ HoldsInteger(NextPhraseEntry, EndKeys)))
       => phrases' = phrases]_vars

Min(a, b) == IF a <= b THEN a ELSE b
Max(a, b) == IF a <= b THEN b ELSE a

\* the phrases after a sub-entry with the integers s and e was applied to
\* a line of len characters: kept as (min, max) when in range, else dropped
RangeHandled(before, after, s, e, len) ==
  IF 0 <= Min(s, e) /\ Max(s, e) < len
    THEN /\ Len(after) = Len(before) + 1
         /\ SubSeq(after, 1, Len(before)) = before
         /\ after[Len(after)].s = Min(s, e)
         /\ after[Len(after)].e = Max(s, e)
    ELSE after = before

\* C12: phrase range handling. A phrase with start > end is swapped before
\* the bounds check and kept if in range; a phrase whose end after the swap
\* is >= the line length, or whose start is < 0, is dropped, never clamped.
C12_RangeHandling ==
  [][(AtPhraseEntry /\ ~Falsy(NextPhraseEntry)
        /\ IsNum(pickInteger(NextPhraseEntry, StartKeys))
        /\ IsNum(pickInteger(NextPhraseEntry, EndKeys)))
       => RangeHandled(phrases, phrases',
                       IntValue(pickInteger(NextPhraseEntry, StartKeys)),
                       IntValue(pickInteger(NextPhraseEntry, EndKeys)),
                       Len(chars))]_vars

\* a reversed phrase was kept swapped and one past the end of the line was
\* dropped
C12_Witness ==
  /\ pc = "phrases" /\ pos = 2
  /\ PhraseItems[1] = Obj([s |-> Num(2), e |-> Num(0), p |-> S1("qc")])
  /\ PhraseItems[2] = Obj([s |-> Num(0), e |-> Num(5), g |-> S1("fb")])
  /\ Len(phrases) = 1
  /\ phrases[1].s = 0 /\ phrases[1].e = 2

\* ---------------------------------------------------- content splitting

Parsed == pc = "parsed"

\* the text between the two markers: from the end of the one that comes
\* first to the start of the other
BetweenMarkers(s, w, c) ==
  IF w <= c THEN Slice(s, w + Len(whiteMark), c)
  ELSE Slice(s, c + Len(commentMark), w)

\* what the contract gives for a text with the vernacular marker at w and
\* the commentary marker at c (-1: absent), up to surrounding white space
SplitAsContract(s, w, c) ==
  IF w = -1
    THEN [originalText |-> Trim(s), vernacular |-> <<>>, comment |-> <<>>]
  ELSE IF c = -1
    THEN [originalText |-> Trim(Slice(s, 0, w)),
          vernacular |-> Trim(SliceFrom(s, w + Len(whiteMark))),
          comment |-> <<>>]
  ELSE [originalText |-> Trim(Slice(s, 0, w)),
        vernacular |-> Trim(BetweenMarkers(s, w, c)),
        comment |-> Trim(SliceFrom(s, c + Len(commentMark)))]

SplitAgrees(s, w, c) ==
  /\ content.originalText = SplitAsContract(s, w, c).originalText
  /\ content.vernacular = SplitAsContract(s, w, c).vernacular
  /\ content.comment = SplitAsContract(s, w, c).comment

\* C13: content splitting. For every text and every arrangement of the two
\* markers (none, one of them, both in either order): without the
\* vernacular marker the whole text is original and vernacular and comment
\* are empty; with both, the original is the text before the vernacular
\* marker, the vernacular the text between the two markers and the
\* commentary the text after the commentary marker; with the vernacular
\* marker only, all after it is vernacular and the commentary is empty.
C13_ContentSplitting ==
  Parsed => SplitAgrees(raw, IndexOf(raw, whiteMark), IndexOf(raw, commentMark))

\* the segments of s between line feeds
RECURSIVE SegmentsBetweenLineFeeds(_, _)
SegmentsBetweenLineFeeds(s, seg) ==
  IF s = <<>> THEN <<seg>>
  ELSE IF Head(s) = "LF" THEN <<seg>> \o SegmentsBetweenLineFeeds(Tail(s), <<>>)
  ELSE SegmentsBetweenLineFeeds(Tail(s), Append(seg, Head(s)))

NonEmptySegment(seg) == seg # <<>>

\* the trimmed, non-empty segments of s in their order
TrimmedSegments(s) ==
  SelectSeq([n \in DOMAIN SegmentsBetweenLineFeeds(s, <<>>) |->
               Trim(SegmentsBetweenLineFeeds(s, <<>>)[n])],
            NonEmptySegment)

\* C14: original-line extraction. originalLines holds the segments of the
\* original section between runs of newlines, each trimmed, the empty ones
\* dropped, in their order; so every element is non-empty and neither
\* starts nor ends with white space.
C14_OriginalLines ==
  Parsed =>
    /\ content.originalLines = TrimmedSegments(sections.original)
    /\ \A n \in 1..Len(content.originalLines) :
         /\ content.originalLines[n] # <<>>
         /\ Head(content.originalLines[n]) \notin WhiteSpace
         /\ content.originalLines[n][Len(content.originalLines[n])] \notin WhiteSpace

\* a text whose first segment is blank and whose second is a line
C14_Witness ==
  /\ Parsed
  /\ raw = <<" ", "LF", "guan">>
  /\ content.originalLines = <<<<"guan">>>>

\* ---------------------------------------------------------------- the run

\* the positions in events of the events of one type
EventsOfType(type) == {n \in 1..Len(events) : events[n].type = type}

\* the positions of the events of one type that are about target j
EventsFor(type, j) == {n \in EventsOfType(type) : events[n].doc = j}

\* the positions of the page writes and of the navigation write
PageWrites == {n \in EventsOfType("writeFile") : events[n].doc > 0}
NavigationWrites == EventsOfType("writeFile") \ PageWrites

\* the page writes that have settled with success: all but one main waits
\* for and one that was rejected
SettledPageWrites ==
  {n \in PageWrites :
     n = Len(events) => pc # "writing" /\ ~(pc = "failed" /\ error = "writeFile")}

\* the original lines of target j, for a file that can be read
OriginalLinesOf(j) == TrimmedSegments(sectionsOf(readFile(targets[j].file).normal).original)

\* target j is a document without original lines
YieldsNoLines(j) ==
  /\ ~IsThrow(readFile(targets[j].file))
  /\ OriginalLinesOf(j) = <<>>

\* the positions of seq that satisfy Keep, in increasing order
RECURSIVE Ascending(_)
Ascending(S) ==
  IF S = {} THEN <<>>
  ELSE <<CHOOSE n \in S : \A m \in S : n <= m>>
       \o Ascending(S \ {CHOOSE n \in S : \A m \in S : n <= m})

\* C15: per-document structural skip. A selected document that yields zero
\* original lines causes no provider request, no page write and no
\* navigation entry, raises no error, and the run goes on with the next
\* selected document.
C15_StructuralSkip ==
  /\ \A j \in 1..Len(targets) :
       YieldsNoLines(j) =>
         /\ EventsFor("fetch", j) = {}
         /\ EventsFor("writeFile", j) = {}
         /\ (visited >= j => EventsFor("warn", j) # {})
  /\ Len(generated) = Cardinality(SettledPageWrites)
  /\ \A n \in 1..Len(generated) :
       generated[n].outputName = events[Ascending(SettledPageWrites)[n]].name
  /\ \A n \in EventsOfType("warn") :
       IF n = Len(events)
         THEN /\ exitCode = 0
              /\ visited = events[n].doc
              /\ pc \in {"loop", "done"}
         ELSE \/ events[n + 1].type = "readFile" /\ events[n + 1].doc = events[n].doc + 1
              \/ events[n + 1].type = "writeFile" /\ events[n + 1].doc = 0

\* a document without original lines was skipped and the one after it was
\* written
C15_Witness ==
  /\ pc = "done"
  /\ Len(targets) = 2
  /\ YieldsNoLines(1)
  /\ EventsFor("warn", 1) # {}
  /\ EventsFor("writeFile", 2) # {}
  /\ Len(generated) = 1

\* the filter of the manifest matches nothing
NothingSelected ==
  /\ ~IsThrow(manifestFile)
  /\ IF Falsy(options.files) THEN manifestFile.normal = <<>>
     ELSE \A n \in 1..Len(manifestFile.normal) :
            ~isWanted(manifestFile.normal[n], wantedOf(options.files.str))

\* the first of the values that is a non-empty string, or ''
RECURSIVE FirstSet(_)
FirstSet(values) ==
  IF values = <<>> THEN <<>>
  ELSE IF IsStr(Head(values)) /\ Head(values).str # <<>> THEN Head(values).str
  ELSE FirstSet(Tail(values))

\* annotation is not skipped and the url, the key or the model is missing
CredentialsMissing ==
  /\ ~skipApi
  /\ \/ FirstSet(<<options.apiUrl, env.DEEPSEEK_API_URL, Str(<<"https">>)>>) = <<>>
     \/ FirstSet(<<options.apiKey, env.DEEPSEEK_API_KEY>>) = <<>>
     \/ FirstSet(<<options.apiModel, env.DEEPSEEK_MODEL, Str(<<"chat">>)>>) = <<>>

\* C16: fatal pre-checks precede processing. When the manifest filter
\* matches nothing, or annotation is not skipped and the provider url, key
\* or model is missing, the run aborts with an error before any document
\* is read, any request is sent or any page is written.
C16_FatalPreChecks ==
  (NothingSelected \/ CredentialsMissing) =>
    /\ events = <<>>
    /\ pc \in {"main", "mkdir", "manifest", "config", "failed"}
    /\ pc = "failed" =>
         exitCode = 1 /\ error \in {"mkdir", "manifest", "selection", "config"}
    /\ pc # "failed" => ENABLED MainNext

\* a run with selected documents and no key was aborted before the loop
C16_Witness ==
  /\ pc = "failed"
  /\ error = "config"
  /\ Len(targets) > 0
  /\ events = <<>>

\* a response that is a transport failure: fetch rejected, or not res.ok
TransportFailure(event) == event.rejected \/ ~event.ok

\* the run has ended in the error state
EndedInError ==
  /\ pc = "failed"
  /\ exitCode = 1
  /\ ~ENABLED MainNext

\* translateWithDeepseek waits for the text of a response that is not ok
BodyOfFailureAwaited == pc = "body" /\ ~response.ok

\* a target with original lines has been read
SomeDocumentToAnnotate ==
  \E n \in EventsOfType("readFile") :
    /\ ~IsThrow(readFile(targets[events[n].doc].file))
    /\ ~YieldsNoLines(events[n].doc)

\* C17: provider transport failure is fatal without retry. When the
\* request for a document fails (non-success response, or no fetch), no
\* second request is sent for it, no later document is requested or
\* written, and the run ends in the error state with a non-zero exit code.
C17_TransportFailureFatal ==
  /\ [](/\ \A j \in 1..Len(targets) : Cardinality(EventsFor("fetch", j)) <= 1
        /\ \A n \in EventsOfType("response") :
             TransportFailure(events[n]) =>
               /\ n = Len(events)
               /\ BodyOfFailureAwaited \/ EndedInError
        /\ (~fetchAvailable /\ ~skipApi) =>
             /\ EventsOfType("fetch") = {}
             /\ EventsOfType("writeFile") = {}
             /\ (SomeDocumentToAnnotate /\ pc \notin {"reading", "annotate"})
                  => EndedInError)
  /\ [][BodyOfFailureAwaited => EndedInError']_vars

\* the request of the first of several documents got a non-success response
\* and the run ended there
C17_Witness ==
  /\ pc = "failed"
  /\ Len(targets) >= 2
  /\ visited = 0
  /\ Len(events) = 3
  /\ events[3].type = "response"
  /\ ~events[3].rejected /\ ~events[3].ok
  /\ exitCode = 1

\* item is selected by --files
Selected(item) ==
  Falsy(options.files) \/ isWanted(item, wantedOf(options.files.str))

\* C18: sequential pipeline. Documents are processed one at a time in
\* manifest order; the page of an earlier processed document is written
\* before the request of a later one is issued, and at most one request is
\* outstanding at any time.
C18_Sequential ==
  /\ pc \notin {"main", "mkdir", "manifest", "failed"} =>
       targets = SelectSeq(manifestFile.normal, Selected)
  /\ \A n, m \in 1..Len(events) :
       (n < m /\ events[n].doc > 0 /\ events[m].doc > 0)
         => events[n].doc <= events[m].doc
  /\ \A n \in EventsOfType("fetch") :
       \A a \in 1..(events[n].doc - 1) :
         ~YieldsNoLines(a) => \E m \in EventsFor("writeFile", a) : m < n
  /\ Cardinality(EventsOfType("fetch")) - Cardinality(EventsOfType("response"))
       \in {0, 1}

\* two documents were requested and the page of the first was written
\* before the request of the second
C18_Witness ==
  /\ pc = "done"
  /\ EventsFor("fetch", 1) # {}
  /\ EventsFor("fetch", 2) # {}
  /\ \E m \in EventsFor("writeFile", 1) : \A n \in EventsFor("fetch", 2) : m < n

\* the lines of a page are the blank annotation of the original lines
BlankPage(page, originalLines) ==
  /\ Len(page.lines) = Len(originalLines)
  /\ AllBlank(page.lines)
  /\ \A l \in 1..Len(page.lines) :
       /\ page.lines[l].text = originalLines[l]
       /\ CharsAuthoritative(page.lines[l].chars, originalLines[l])

\* C19: degraded mode. With --skip-api no provider request is ever sent,
\* missing credentials are not an error, and every written page carries an
\* annotation with all pinyin and gloss blank, no phrases and the original
\* characters.
C19_DegradedMode ==
  skipApi =>
    /\ EventsOfType("fetch") = {}
    /\ EventsOfType("response") = {}
    /\ error \in {"none", "mkdir", "manifest", "selection", "readFile", "writeFile"}
    /\ \A n \in PageWrites :
         BlankPage(events[n].data, OriginalLinesOf(events[n].doc))

\* a run with --skip-api and no key wrote the page of the document with a
\* surrogate pair
C19_Witness ==
  /\ skipApi
  /\ pc = "done"
  /\ FirstSet(<<options.apiKey, env.DEEPSEEK_API_KEY>>) = <<>>
  /\ \E n \in PageWrites :
       /\ targets[events[n].doc].file = FileZai
       /\ Len(events[n].data.lines[1].chars) = 3

\* the name of the page of a source file: .html for a final .txt
DerivedName(file) ==
  IF file # <<>> /\ file[Len(file)] \in {".txt", ".TXT"}
    THEN [file EXCEPT ![Len(file)] = ".html"]
    ELSE file

\* one page was written for each target that has original lines, under the
\* derived name, and none for the others
OnePagePerProcessedItem ==
  \A j \in 1..Len(targets) :
    IF YieldsNoLines(j) THEN EventsFor("writeFile", j) = {}
    ELSE /\ Cardinality(EventsFor("writeFile", j)) = 1
         /\ \A n \in EventsFor("writeFile", j) :
              events[n].name = DerivedName(targets[j].file)

\* C20 as claimed: a run that ends without a fatal error has written one
\* page per processed item and one navigation document.
C20_OutputSetAsClaimed ==
  pc = "done" =>
    /\ OnePagePerProcessedItem
    /\ Cardinality(NavigationWrites) = 1

\* C20: output set. A run that ends without a fatal error has written one
\* page per processed item, named after the source file, and, when at
\* least one page was written, one navigation document after the pages;
\* when every selected document was skipped it has written nothing.
C20_OutputSet ==
  pc = "done" =>
    /\ OnePagePerProcessedItem
    /\ Cardinality(NavigationWrites) = (IF PageWrites = {} THEN 0 ELSE 1)
    /\ \A n \in NavigationWrites :
         /\ n = Len(events)
         /\ events[n].name = NavigationName
    /\ PageWrites = {} => EventsOfType("writeFile") = {}

\* a run wrote the pages of two documents and the navigation document
C20_Witness ==
  /\ pc = "done"
  /\ Cardinality(PageWrites) = 2
  /\ Cardinality(NavigationWrites) = 1
  /\ \E n \in PageWrites : events[n].name = <<"guan", ".html">>

\* a response event of a request that was answered with success
ReturnedSuccessfully(event) == ~event.rejected /\ event.ok

\* the page of target j was written right after event n, with one line per
\* original line
PageFollows(n, j) ==
  /\ n < Len(events)
  /\ events[n + 1].type = "writeFile"
  /\ events[n + 1].doc = j
  /\ Len(events[n + 1].data.lines) = Len(OriginalLinesOf(j))

\* after event n, the last of target j, the loop went on: with the read of
\* the next target, or with the navigation page
GoesOnAfter(n, j) ==
  \/ events[n + 1].type = "readFile" /\ events[n + 1].doc = j + 1
  \/ events[n + 1].type = "writeFile" /\ events[n + 1].doc = 0

\* C21: a provider response that is returned successfully but is
\* unparseable or of unexpected shape does not fail the run. The document
\* is still normalised, its page is written and processing goes on with the
\* next document.
C21_MalformedResponseAbsorbed ==
  \A n \in EventsOfType("response") :
    ReturnedSuccessfully(events[n]) =>
      /\ (n = Len(events) => pc \in {"body", "write"} /\ exitCode = 0)
      /\ (n < Len(events) => PageFollows(n, events[n].doc))
      /\ (n + 1 < Len(events) => GoesOnAfter(n + 1, events[n].doc))

\* ------------------------------------------------- duplicate line indices

\* element m of payload.lines has a line index
Indexed(m) ==
  /\ ~Falsy(LineItems[m])
  /\ IsNum(pickInteger(LineItems[m], LineIndexKeys))

\* a later element of payload.lines carries the line index of element m
Superseded(m) ==
  /\ Indexed(m)
  /\ \E x \in (m + 1)..Len(LineItems) :
       /\ Indexed(x)
       /\ pickInteger(LineItems[x], LineIndexKeys) = pickInteger(LineItems[m], LineIndexKeys)

\* payload.lines without the elements that a later one supersedes
LastOfEachIndex ==
  [n \in 1..Cardinality({m \in 1..Len(LineItems) : ~Superseded(m)}) |->
     LineItems[Ascending({m \in 1..Len(LineItems) : ~Superseded(m)})[n]]]

\* C22: duplicate line indices. When several payload line entries carry the
\* same line index only the last of them in array order is used for that
\* line: the result is the one of the payload without the earlier entries,
\* whose character and phrase annotations are not applied at all.
C22_LastDuplicateWins ==
  (Returned /\ \E m \in 1..Len(LineItems) : Superseded(m)) =>
    /\ translation.lines = normaliseTranslation(content, WithLines(LastOfEachIndex)).lines
    /\ \A n \in 1..Len(translation.lines) :
         translation.lines[n] =
           normaliseLine(content.originalLines[n], EntryOfLine(n - 1))

\* two entries for line 0: the gloss and the phrase of the first are not in
\* the result, the pinyin of the second is
C22_Witness ==
  /\ Returned
  /\ LineItems =
       << Obj([index |-> Num(0),
               chars |-> Arr(<<Obj([i |-> Num(0), g |-> S1("a0")])>>),
               phrases |-> Arr(<<Obj([s |-> Num(0), e |-> Num(1), g |-> S1("f0")])>>)]),
          Obj([line |-> Num(0),
               chars |-> Arr(<<Obj([i |-> Num(1), p |-> S1("b0")])>>)]) >>
  /\ Superseded(1)
  /\ translation.lines[1].chars[1].g = <<>>
  /\ translation.lines[1].chars[2].p = <<"b0">>
  /\ translation.lines[1].phrases = <<>>

\* ------------------------------------------------- character sub-entries

\* all slots but slot keep their cell and slot keeps its character
OnlySlotChanged(before, after, slot) ==
  /\ Len(after) = Len(before)
  /\ after[slot].c = before[slot].c
  /\ \A j \in 1..Len(before) : j # slot => after[j] = before[j]

\* C23: character sub-entry frame. A character sub-entry whose extracted
\* position is in range changes at most the pinyin and gloss of that slot
\* of its own line and leaves every other slot and every other line as it
\* was; a sub-entry whose position is absent or outside 0..len-1 changes
\* nothing.
C23_CharEntryFrame ==
  [][AtCharEntry =>
       /\ lines' = lines
       /\ phrases' = phrases
       /\ lineMap' = lineMap
       /\ IF HasSlot(NextCharEntry, CurrentText)
            THEN OnlySlotChanged(chars, chars', SlotOf(NextCharEntry))
            ELSE chars' = chars]_vars

\* on a line of four characters the sub-entry {i: 1, g} was applied: slot 1
\* has the gloss and slots 0, 2 and 3 are blank
C23_Witness ==
  /\ pc = "chars" /\ pos = 1
  /\ CurrentText = LineGuan
  /\ CharItems[1] = Obj([i |-> Num(1), g |-> S1("ming")])
  /\ chars[2].g = <<"ming">>
  /\ \A j \in {1, 3, 4} : chars[j].g = <<>> /\ chars[j].p = <<>>

\* ------------------------------------------------- navigation document

IsPageWrite(e) == e.type = "writeFile" /\ e.doc > 0

\* the pages written so far, in the order of their writes
PagesWritten == SelectSeq(events, IsPageWrite)

\* the entries of a navigation document name the written pages, in order
ListsWrittenPages(entries) ==
  /\ Len(entries) = Len(PagesWritten)
  /\ \A k \in 1..Len(entries) :
       /\ entries[k].outputName = PagesWritten[k].name
       /\ entries[k].outputName = outNameOf(PagesWritten[k].data.file)

\* every target before k that has original lines has its page
PagesBeforeWritten(k) ==
  \A j \in 1..(k - 1) :
    Cardinality(EventsFor("writeFile", j)) = (IF YieldsNoLines(j) THEN 0 ELSE 1)

\* C27: navigation consistency. The navigation document is written only
\* after the last selected document has been processed, its entries are
\* exactly the pages written in the run, in processing order, and a run
\* aborted by a provider failure at document k leaves the pages of the
\* documents before k written and writes no navigation document.
C27_NavigationConsistency ==
  /\ \A n \in NavigationWrites :
       /\ n = Len(events)
       /\ pc \in {"navigation", "done"} \/ (pc = "failed" /\ error = "writeFile")
       /\ visited = Len(targets)
       /\ \A j \in 1..Len(targets) : EventsFor("readFile", j) # {}
       /\ ListsWrittenPages(events[n].data)
  /\ (pc = "failed" /\ error = "provider") =>
       /\ NavigationWrites = {}
       /\ EventsFor("writeFile", visited + 1) = {}
       /\ PagesBeforeWritten(visited + 1)
       /\ ~ENABLED MainNext

\* the provider failed at the second document after the page of the first
\* was written
C27_Witness ==
  /\ pc = "failed" /\ error = "provider"
  /\ visited = 1
  /\ Cardinality(PageWrites) = 1
  /\ NavigationWrites = {}

\* ------------------------------------------------- extraction primitives

\* the keys of the list, by position, that the source holds with a string
\* that is not empty after trimming
StringKeys(source, keys) ==
  {m \in 1..Len(keys) :
     /\ IsObj(source)
     /\ keys[m] \in DOMAIN source.obj
     /\ IsStr(source.obj[keys[m]])
     /\ Trim(source.obj[keys[m]].str) # <<>>}

\* the keys of the list, by position, that the source holds with a value
\* that Number() turns into a whole number
WholeKeys(source, keys) ==
  {m \in 1..Len(keys) :
     /\ IsObj(source)
     /\ keys[m] \in DOMAIN source.obj
     /\ IsInteger(ToNumber(source.obj[keys[m]]))}

Least(S) == CHOOSE x \in S : \A y \in S : x <= y

FirstString(source, keys) ==
  IF StringKeys(source, keys) = {} THEN Str(<<>>)
  ELSE Str(Trim(source.obj[keys[Least(StringKeys(source, keys))]].str))

FirstWhole(source, keys) ==
  IF WholeKeys(source, keys) = {} THEN Null
  ELSE Num(IntValue(ToNumber(source.obj[keys[Least(WholeKeys(source, keys))]])))

\* both primitives give the first qualifying key of each list
Extracts(source, lists) ==
  \A keys \in lists :
    /\ pickString(source, keys) = FirstString(source, keys)
    /\ pickInteger(source, keys) = FirstWhole(source, keys)

KeyLists == {LineIndexKeys, CharIndexKeys, CharKeys, PinyinKeys, GlossKeys,
             StartKeys, EndKeys, SummaryKeys, TitleKeys}

\* C25: extraction primitive. pickString returns the trimmed value of the
\* first key, in priority order, whose value is a string that is non-empty
\* after trimming, and '' when no key qualifies; pickInteger returns the
\* value of the first key, in priority order, that is present and whose
\* value coerces to a whole number, passing over a present key with a
\* non-integer value, and null when no key qualifies.
C25_ExtractionPrimitive ==
  /\ Extracts(payload, KeyLists)
  /\ \A m \in 1..Len(LineItems) : Extracts(LineItems[m], KeyLists)
  /\ AtCharEntry => Extracts(NextCharEntry, KeyLists)
  /\ AtPhraseEntry => Extracts(NextPhraseEntry, KeyLists)

\* the sub-entry {i: 3/2, position: 1, p} was applied to slot 1: the
\* fraction under i was passed over in favour of position
C25_Witness ==
  /\ pc = "chars" /\ pos = 1
  /\ CharItems[1] = Obj([i |-> Frac(3, 2), position |-> Num(1), p |-> S1("pf")])
  /\ pickInteger(CharItems[1], CharIndexKeys) = Num(1)
  /\ chars[2].p = <<"pf">>

\* ---------------------------------------- the functions of the script

\* the notes lines 577-581 compute from the page data and localStorage
startNotes == loadedNotes(pageData, localStorage)

\* the call of a function has returned
Called(fn) == pc = "returned" /\ call.fn = fn

\* the characters of the notes n are those of the page
CharactersOfPage(n) ==
  /\ Len(n.lines) = Len(pageData.lines)
  /\ \A i \in 1..Len(n.lines) :
       /\ Len(n.lines[i]) = Len(pageData.lines[i].chars)
       /\ \A j \in 1..Len(n.lines[i]) :
            n.lines[i][j].c = pageData.lines[i].chars[j].c

\* the notes n hold the characters the notes m hold
SameCharacters(n, m) ==
  /\ Len(n.lines) = Len(m.lines)
  /\ \A i \in 1..Len(n.lines) :
       /\ Len(n.lines[i]) = Len(m.lines[i])
       /\ \A j \in 1..Len(n.lines[i]) : n.lines[i][j].c = m.lines[i][j].c

RecordsOf(list, r) == {n \in 1..Len(list) : list[n].s = r.s /\ list[n].e = r.e}

\* the saved range is another one than the range that was loaded
SelectedAnew == call.loaded # NoPhrase /\ (call.loaded.s # call.s \/ call.loaded.e # call.e)

\* the save of the range left list where it found held
Overwrites(held, list) ==
  /\ SelectedAnew => RecordsOf(list, call.loaded) = {}
  /\ RecordsOf(held, call) # {} =>
       /\ Len(list) = Len(held)
       /\ RecordsOf(list, call) = RecordsOf(held, call)

PhraseSubEntries(k) == arrayOf(EntryOfLine(k), "phrases")

\* a phrase sub-entry with whole numbers under s and e that, put in order,
\* lie within the line
ValidPhrase(ph, len) ==
  /\ IsObj(ph)
  /\ {"s", "e"} \subseteq DOMAIN ph.obj
  /\ IsInteger(ph.obj.s) /\ IsInteger(ph.obj.e)
  /\ Min(IntValue(ph.obj.s), IntValue(ph.obj.e)) >= 0
  /\ Max(IntValue(ph.obj.s), IntValue(ph.obj.e)) < len

ValidOnPage(ph) == ValidPhrase(ph, UnicodeLength(CurrentText))

\* the record a valid phrase sub-entry is kept as
RecordOf(ph) ==
  [s |-> Min(IntValue(ph.obj.s), IntValue(ph.obj.e)),
   e |-> Max(IntValue(ph.obj.s), IntValue(ph.obj.e)),
   p |-> FirstString(ph, PinyinKeys).str,
   g |-> FirstString(ph, GlossKeys).str]

\* the valid phrase sub-entries of line k in the order of the payload, each
\* as its record
RetainedPhrases(k) ==
  [n \in 1..Len(SelectSeq(PhraseSubEntries(k), ValidOnPage)) |->
     RecordOf(SelectSeq(PhraseSubEntries(k), ValidOnPage)[n])]

\* the records the notes hold for those phrases: pinyin and gloss as the
\* strings they are
RetainedNotes(k) ==
  [n \in 1..Len(RetainedPhrases(k)) |->
     [RetainedPhrases(k)[n] EXCEPT !.p = Str(@), !.g = Str(@)]]

\* the notes hold the phrases the page was generated with: localStorage
\* has none for the page
PhrasesAsGenerated == storedPhraseKeys(storeLoad(localStorage)) = {}

\* the positions of the phrases of a list that cover the character index
Covering(list, ci) == {n \in 1..Len(list) : list[n].s <= ci /\ list[n].e >= ci}

\* the first phrase of the list that covers the index, Null when none does
FirstOf(list, ci) ==
  IF Covering(list, ci) = {} THEN Null ELSE list[Least(Covering(list, ci))]

====
